---- MODULE Spec2Model ----
(***************************************************************************)
(* Model of the case-images serverless handlers:                           *)
(*   - generateVerifiedHeadshot, the verified-generation loop              *)
(*     (api/process.ts, latest variant);                                   *)
(*   - the image pipeline handler (batch, dryRun, debug, scanOrigin and    *)
(*     scanPair modes);                                                    *)
(*   - the instructions pipeline handler with its bundling.                *)
(* Remote collaborators (datastore, model provider, blob store) answer     *)
(* nondeterministically; every remote call may also throw.                 *)
(***************************************************************************)
EXTENDS Integers, Sequences, FiniteSets, TLC

\* ------------------------------------------------------------------ bounds
\* Largest case identifier of the modelled datastore (MAX_CASE_ID / endAt).
MaxCase == 2
\* Highest case identifier in the instructions-pipeline model.
MaxInstrCase == 3
\* Largest value of the limit query parameter that is explored.
MaxLimit == 2
\* Largest value of the bundleSize query parameter that is explored.
MaxBundle == 2

\* ------------------------------------------------------- program constants
\* for (let attempt = 1; attempt <= 3; attempt++)
MaxAttempts == 3
\* if (ageN != null && ageN < 6)
ChildAgeThreshold == 6

\* --------------------------------------------------------- text helpers
\* Texts are sequences of one-character strings.
IsSpace(c) == c \in {" ", "\n", "\t"}

RECURSIVE trimStart(_)
trimStart(s) ==
  IF s = <<>> THEN <<>>
  ELSE IF IsSpace(Head(s)) THEN trimStart(Tail(s)) ELSE s

RECURSIVE trimEnd(_)
trimEnd(s) ==
  IF s = <<>> THEN <<>>
  ELSE IF IsSpace(s[Len(s)]) THEN trimEnd(SubSeq(s, 1, Len(s) - 1)) ELSE s

\* String.prototype.trim
trim(s) == trimEnd(trimStart(s))

UpperLetters ==
  << "A","B","C","D","E","F","G","H","I","J","K","L","M",
     "N","O","P","Q","R","S","T","U","V","W","X","Y","Z" >>

LowerLetters ==
  << "a","b","c","d","e","f","g","h","i","j","k","l","m",
     "n","o","p","q","r","s","t","u","v","w","x","y","z" >>

LowerChar(c) ==
  IF \E i \in 1..Len(UpperLetters) : UpperLetters[i] = c
  THEN LowerLetters[CHOOSE i \in 1..Len(UpperLetters) : UpperLetters[i] = c]
  ELSE c

\* String.prototype.toLowerCase
toLowerCase(s) == [i \in 1..Len(s) |-> LowerChar(s[i])]

\* String.prototype.startsWith
startsWith(s, p) == Len(s) >= Len(p) /\ SubSeq(s, 1, Len(p)) = p

\* String.prototype.includes
includes(s, p) ==
  \E i \in 1..(Len(s) - Len(p) + 1) : SubSeq(s, i, i + Len(p) - 1) = p

IsDigit(c) == c \in {"0", "1", "2", "3", "4", "5", "6", "7", "8", "9"}

DigitValue(c) ==
  CASE c = "0" -> 0 [] c = "1" -> 1 [] c = "2" -> 2 [] c = "3" -> 3
    [] c = "4" -> 4 [] c = "5" -> 5 [] c = "6" -> 6 [] c = "7" -> 7
    [] c = "8" -> 8 [] c = "9" -> 9

\* What the vision model may answer (resp.output_text); "null" stands for a
\* response without output_text.
VisionOutputs ==
  { <<"y","e","s">>, <<" ","Y","e","s",".">>, <<"Y","E","S">>,
    <<"n","o">>, <<"m","a","y","b","e">>, <<"y","e">>, <<>>,
    <<"n","o",","," ","y","e","s">> }

\* The outcome of one remote vision call after withRetry: an error, a
\* response without text, or a response with a text.
VisionResponses ==
  { [kind |-> "error", text |-> <<>>], [kind |-> "null", text |-> <<>>] }
    \cup { [kind |-> "text", text |-> t] : t \in VisionOutputs }

\* A verifier that looks for "yes" anywhere in the answer.
visionYesNo_Includes(resp) ==
  LET raw == IF resp.kind = "text" THEN resp.text ELSE <<>>
  IN  includes(toLowerCase(trim(raw)), <<"y","e","s">>)

\* const out = (resp.output_text || "").trim().toLowerCase();
\* return out.startsWith("yes");
visionYesNo(resp) ==
  LET raw == IF resp.kind = "text" THEN resp.text ELSE <<>>
      out == toLowerCase(trim(raw))
  IN  startsWith(out, <<"y","e","s">>)

\* The outcome of one images.generate call after withRetry: "error" (the
\* call threw), "missing" (no data[0].b64_json), "empty" (b64_json is the
\* empty string) or "image" (a payload).
ImageResponses == {"error", "missing", "empty", "image"}

\* generateHeadshotPngBase64: the payload returned, 0 standing for the empty
\* string and n > 0 for the payload of the n-th generation call; threw is
\* TRUE when the function throws instead.
generateHeadshotPngBase64_NoCheck(resp, n) ==
  [threw |-> resp = "error",
   b64   |-> IF resp = "image" THEN n ELSE 0,
   msg   |-> "API_ERROR"]
\* A generator that hands on a response without data[0].b64_json as an empty
\* payload.
generateHeadshotPngBase64_MissingIsEmpty(resp, n) ==
  IF resp = "error" THEN [threw |-> TRUE, b64 |-> 0, msg |-> "API_ERROR"]
  ELSE IF resp = "empty"
       THEN [threw |-> TRUE, b64 |-> 0, msg |-> "OPENAI_IMAGE_NO_B64_JSON"]
       ELSE [threw |-> FALSE, b64 |-> IF resp = "image" THEN n ELSE 0,
             msg |-> "none"]
generateHeadshotPngBase64(resp, n) ==
  IF resp = "error" THEN [threw |-> TRUE, b64 |-> 0, msg |-> "API_ERROR"]
  ELSE IF resp # "image"
       THEN [threw |-> TRUE, b64 |-> 0, msg |-> "OPENAI_IMAGE_NO_B64_JSON"]
       ELSE [threw |-> FALSE, b64 |-> n, msg |-> "none"]


\* ------------------------------------------------------------------ state
VARIABLES
  req,                \* the request: header secret and query parameters
  pc,                 \* position of the running handler / function
  caseId,             \* loop variable of the handler
  caseText,           \* aggregated text of the current case
  err,                \* the exception in flight, "none" when there is none
  processed,          \* const processed: any[]
  scan,               \* result lists of the scanOrigin / scanPair modes
  response,           \* the HTTP response sent, "none" before
  texts,              \* per case id, what getCaseText gave: "unread" before
  modelCalls,         \* provider calls made: [kind, caseId]
  blobWrites,         \* put calls made: [path, caseId]
  blobs,              \* the blob store: path -> content
  profile,            \* the VisualProfile of the current case
  expectedPeople, requireChildAdult,                 \* arguments of the loop
  attempt, b64, peopleOk, genderOk, clothingOk, childAdultOk,
  last, lastPeopleOk, lastGenderOk, lastClothingOk, lastChildAdultOk,
  gen,                \* what generateVerifiedHeadshot returned
  genCalls,           \* images.generate calls made by the current loop run
  visionLog,          \* vision calls of the current attempt: [q, img, yes]
  genderNoAt,         \* attempts on which the gender question was answered no
  currentBundleStart, currentItems, bundles,         \* instructions bundling
  cueAttempt, lastCues,                              \* generateCuesPrioritised
  call,               \* a function called on its own: its name and arguments
  callPc,             \* position inside that function
  callLocals,         \* its local variables
  callLog,            \* the remote operations and sleeps it made, in order
  callResult          \* what it returned or threw

loopVars ==
  << expectedPeople, requireChildAdult, attempt, b64, peopleOk, genderOk,
     clothingOk, childAdultOk, last, lastPeopleOk, lastGenderOk,
     lastClothingOk, lastChildAdultOk, gen, genCalls, visionLog, genderNoAt >>

attemptVars == << b64, peopleOk, genderOk, clothingOk, childAdultOk >>

lastVars == << last, lastPeopleOk, lastGenderOk, lastClothingOk, lastChildAdultOk >>

handlerVars ==
  << req, caseId, caseText, processed, scan, response, texts, blobWrites,
     blobs, profile >>

instrVars == << currentBundleStart, currentItems, bundles, cueAttempt, lastCues >>

fnVars == << call, callPc, callLocals, callLog, callResult >>

vars == << pc, err, modelCalls, loopVars, handlerVars, instrVars, fnVars >>

NoErr == [message |-> "none", status |-> 0]
NoResponse == [status |-> 0, ok |-> FALSE, kind |-> "none"]
NoCompanion == [role |-> "none", gender_presentation |-> "none"]
NoProfile == [age |-> <<>>, composition |-> "unset", companion |-> NoCompanion]

NoGen == [b64 |-> 0, attempts |-> 0, peopleOk |-> FALSE, genderOk |-> FALSE,
          clothingOk |-> FALSE, childAdultOk |-> FALSE]

\* Statuses an upstream error may carry; 0 stands for an error without one.
ErrStatuses == {0, 429}

ApiError(st) == [message |-> "API_ERROR", status |-> st]

\* ------------------------------------------- generateVerifiedHeadshot
\* Locals at function entry (part_002 985-989), the loop at attempt = 1.
LoopEntry(people, childAdult) ==
  /\ expectedPeople' = people
  /\ requireChildAdult' = childAdult
  /\ attempt' = 1
  /\ b64' = 0
  /\ peopleOk' = FALSE /\ genderOk' = FALSE
  /\ clothingOk' = FALSE /\ childAdultOk' = FALSE
  /\ last' = 0
  /\ lastPeopleOk' = FALSE /\ lastGenderOk' = FALSE /\ lastClothingOk' = FALSE
  /\ lastChildAdultOk' = ~childAdult
  /\ gen' = NoGen
  /\ genCalls' = 0
  /\ visionLog' = <<>>
  /\ genderNoAt' = {}

\* const genderOk = peopleOk ? await verifyGender(...) : false; the later
\* checks are asked of the vision model only when the count check passed.
AsksAfterCount_Always(people) == TRUE
AsksAfterCount(people) == people

\* if (peopleOk && genderOk && clothingOk && childAdultOk) return {...}
AllChecksPass_IgnoreChildAdult(p, g, c, ca) == p /\ g /\ c
AllChecksPass(p, g, c, ca) == p /\ g /\ c /\ ca

\* for (...; attempt <= 3; attempt++): another iteration follows attempt a.
HasNextAttempt(a) == a < MaxAttempts

\* return { b64, attempts: attempt, peopleOk, genderOk, clothingOk, childAdultOk }
AcceptedResult(img, a, p, g, c, ca) ==
  [b64 |-> img, attempts |-> a, peopleOk |-> p, genderOk |-> g,
   clothingOk |-> c, childAdultOk |-> ca]

\* return { b64: last, attempts: 3, peopleOk: lastPeopleOk, ... }
ExhaustedResult_StaleFlags(l, lp, lg, lc, lca) ==
  [b64 |-> l, attempts |-> MaxAttempts, peopleOk |-> lp, genderOk |-> TRUE,
   clothingOk |-> lc, childAdultOk |-> lca]
ExhaustedResult(l, lp, lg, lc, lca) ==
  [b64 |-> l, attempts |-> MaxAttempts, peopleOk |-> lp, genderOk |-> lg,
   clothingOk |-> lc, childAdultOk |-> lca]

Throw(e) == pc' = "thrown" /\ err' = e

ImageCall == [kind |-> "image", caseId |-> caseId]
VisionCall == [kind |-> "vision", caseId |-> caseId]
TextCall == [kind |-> "text", caseId |-> caseId]

\* const b64 = await generateHeadshotPngBase64(prompt); last = b64;
Generate ==
  /\ pc = "GENERATE"
  /\ \E resp \in ImageResponses, st \in ErrStatuses :
       LET r == generateHeadshotPngBase64(resp, genCalls + 1) IN
         /\ resp # "error" => st = 0
         /\ genCalls' = genCalls + 1
         /\ modelCalls' = modelCalls \cup {ImageCall}
         /\ visionLog' = <<>>
         /\ IF r.threw
            THEN /\ Throw([message |-> r.msg, status |-> st])
                 /\ UNCHANGED << b64, last >>
            ELSE /\ b64' = r.b64
                 /\ last' = r.b64
                 /\ pc' = "CHECK_COUNT"
                 /\ err' = err
  /\ UNCHANGED << expectedPeople, requireChildAdult, attempt, peopleOk,
                  genderOk, clothingOk, childAdultOk, lastPeopleOk,
                  lastGenderOk, lastClothingOk, lastChildAdultOk, gen,
                  genderNoAt >>
  /\ UNCHANGED << handlerVars, instrVars >>
  /\ UNCHANGED fnVars

Asked(q, yes) == Append(visionLog, [q |-> q, img |-> b64, yes |-> yes])

\* const peopleOk = await verifyPersonCount(b64, expectedPeople);
VerifyPersonCount ==
  /\ pc = "CHECK_COUNT"
  /\ \E resp \in VisionResponses, st \in ErrStatuses :
       /\ resp.kind # "error" => st = 0
       /\ modelCalls' = modelCalls \cup {VisionCall}
       /\ IF resp.kind = "error"
          THEN Throw(ApiError(st)) /\ UNCHANGED << peopleOk, visionLog >>
          ELSE /\ peopleOk' = visionYesNo(resp)
               /\ visionLog' = Asked("people", visionYesNo(resp))
               /\ pc' = "CHECK_GENDER"
               /\ err' = err
  /\ UNCHANGED << expectedPeople, requireChildAdult, attempt, b64, genderOk,
                  clothingOk, childAdultOk, lastVars, gen, genCalls,
                  genderNoAt >>
  /\ UNCHANGED << handlerVars, instrVars >>
  /\ UNCHANGED fnVars

\* const genderOk = peopleOk ? await verifyGender(b64, expectedGender) : false;
VerifyGender ==
  /\ pc = "CHECK_GENDER"
  /\ IF AsksAfterCount(peopleOk)
     THEN \E resp \in VisionResponses, st \in ErrStatuses :
            /\ resp.kind # "error" => st = 0
            /\ modelCalls' = modelCalls \cup {VisionCall}
            /\ IF resp.kind = "error"
               THEN Throw(ApiError(st))
                    /\ UNCHANGED << genderOk, visionLog, genderNoAt >>
               ELSE /\ genderOk' = visionYesNo(resp)
                    /\ visionLog' = Asked("gender", visionYesNo(resp))
                    /\ genderNoAt' = IF visionYesNo(resp) THEN genderNoAt
                                     ELSE genderNoAt \cup {attempt}
                    /\ pc' = "CHECK_CLOTHING"
                    /\ err' = err
     ELSE /\ genderOk' = FALSE
          /\ pc' = "CHECK_CLOTHING"
          /\ UNCHANGED << err, modelCalls, visionLog, genderNoAt >>
  /\ UNCHANGED << expectedPeople, requireChildAdult, attempt, b64, peopleOk,
                  clothingOk, childAdultOk, lastVars, gen, genCalls >>
  /\ UNCHANGED << handlerVars, instrVars >>
  /\ UNCHANGED fnVars

\* const clothingOk = peopleOk ? await visionYesNo(b64, clothingCheckQuestion(..)) : false;
VerifyClothing ==
  /\ pc = "CHECK_CLOTHING"
  /\ IF AsksAfterCount(peopleOk)
     THEN \E resp \in VisionResponses, st \in ErrStatuses :
            /\ resp.kind # "error" => st = 0
            /\ modelCalls' = modelCalls \cup {VisionCall}
            /\ IF resp.kind = "error"
               THEN Throw(ApiError(st)) /\ UNCHANGED << clothingOk, visionLog >>
               ELSE /\ clothingOk' = visionYesNo(resp)
                    /\ visionLog' = Asked("clothing", visionYesNo(resp))
                    /\ pc' = "CHECK_CHILD_ADULT"
                    /\ err' = err
     ELSE /\ clothingOk' = FALSE
          /\ pc' = "CHECK_CHILD_ADULT"
          /\ UNCHANGED << err, modelCalls, visionLog >>
  /\ UNCHANGED << expectedPeople, requireChildAdult, attempt, b64, peopleOk,
                  genderOk, childAdultOk, lastVars, gen, genCalls, genderNoAt >>
  /\ UNCHANGED << handlerVars, instrVars >>
  /\ UNCHANGED fnVars

\* const childAdultOk = requireChildAdult
\*   ? (peopleOk ? await verifyChildAndAdult(b64) : false) : true;
VerifyChildAndAdult ==
  /\ pc = "CHECK_CHILD_ADULT"
  /\ IF requireChildAdult /\ AsksAfterCount(peopleOk)
     THEN \E resp \in VisionResponses, st \in ErrStatuses :
            /\ resp.kind # "error" => st = 0
            /\ modelCalls' = modelCalls \cup {VisionCall}
            /\ IF resp.kind = "error"
               THEN Throw(ApiError(st)) /\ UNCHANGED << childAdultOk, visionLog >>
               ELSE /\ childAdultOk' = visionYesNo(resp)
                    /\ visionLog' = Asked("childAdult", visionYesNo(resp))
                    /\ pc' = "DECIDE"
                    /\ err' = err
     ELSE /\ childAdultOk' = ~requireChildAdult
          /\ pc' = "DECIDE"
          /\ UNCHANGED << err, modelCalls, visionLog >>
  /\ UNCHANGED << expectedPeople, requireChildAdult, attempt, b64, peopleOk,
                  genderOk, clothingOk, lastVars, gen, genCalls, genderNoAt >>
  /\ UNCHANGED << handlerVars, instrVars >>
  /\ UNCHANGED fnVars

\* lastPeopleOk = peopleOk; ...; if (all ok) return {...}; then either the
\* next iteration or, after the last one, the return of the last attempt.
AttemptEnd ==
  /\ pc = "DECIDE"
  /\ lastPeopleOk' = peopleOk
  /\ lastGenderOk' = genderOk
  /\ lastClothingOk' = clothingOk
  /\ lastChildAdultOk' = childAdultOk
  /\ IF AllChecksPass(peopleOk, genderOk, clothingOk, childAdultOk)
     THEN /\ gen' = AcceptedResult(b64, attempt, peopleOk, genderOk,
                                   clothingOk, childAdultOk)
          /\ pc' = "returned"
          /\ attempt' = attempt
     ELSE IF HasNextAttempt(attempt)
          THEN /\ attempt' = attempt + 1
               /\ pc' = "GENERATE"
               /\ gen' = gen
          ELSE /\ gen' = ExhaustedResult(last, lastPeopleOk', lastGenderOk',
                                         lastClothingOk', lastChildAdultOk')
               /\ pc' = "returned"
               /\ attempt' = attempt
  /\ UNCHANGED << expectedPeople, requireChildAdult, attemptVars, last,
                  genCalls, visionLog, genderNoAt >>
  /\ UNCHANGED << err, modelCalls, handlerVars, instrVars >>
  /\ UNCHANGED fnVars


\* ------------------------------------------------------------ blob store
\* `case-avatars/${pad3(caseId)}.png`, `case-profiles/${pad3(caseId)}.json`
\* and `case-instructions/batch-${pad4(start)}-${pad4(end)}.json`: the padded
\* number determines the identifier, so a path is modelled by its parts.
PngPath(id) == [dir |-> "case-avatars", a |-> id, b |-> id]
JsonPath(id) == [dir |-> "case-profiles", a |-> id, b |-> id]
BundlePath(startId, endId) == [dir |-> "case-instructions", a |-> startId, b |-> endId]

CaseIds == 1..(IF MaxCase > MaxInstrCase THEN MaxCase ELSE MaxInstrCase)

Paths ==
  { PngPath(i) : i \in CaseIds } \cup { JsonPath(i) : i \in CaseIds }
    \cup { BundlePath(i, j) : i \in CaseIds, j \in CaseIds }

\* Content of a path: "none" (no blob), "old" (written before this
\* invocation), "new" (written by this invocation), or "unknown": a path
\* this invocation has not looked at yet, which holds "none" or "old".
EmptyStore == [p \in Paths |-> "none"]
UnknownStore == [p \in Paths |-> "unknown"]

\* uploadPng, uploadJson and uploadBundleJson:
\*   if (!overwrite) { const exists = await blobExists(pathname);
\*                     if (exists) return (await head(pathname)).url; }
\*   const res = await put(pathname, bytes, {...}); return res.url;
\* blobExists is true when head(pathname) answers and false on any error.
\* found is what the path holds when first looked at; head1Ok, head2Ok and
\* putOk tell whether the remote calls answer.
blobExists_NeverFinds(content, headOk) == FALSE

blobExists(content, headOk) == headOk /\ content # "none"

Upload(store, path, overwrite, found, head1Ok, head2Ok, putOk) ==
  LET content == IF store[path] = "unknown" THEN found ELSE store[path]
      looked  == IF ~overwrite /\ head1Ok
                 THEN [store EXCEPT ![path] = content] ELSE store
  IN  IF ~overwrite /\ blobExists(content, head1Ok)
      THEN [threw |-> ~head2Ok, wrote |-> FALSE, store |-> looked]
      ELSE IF putOk
           THEN [threw |-> FALSE, wrote |-> TRUE,
                 store |-> [looked EXCEPT ![path] = "new"]]
           ELSE [threw |-> TRUE, wrote |-> FALSE, store |-> looked]

\* ------------------------------------------------- the loop on its own
\* A request that plays no part (the loop is called directly).
NoRequest ==
  [secret |-> "good", startFrom |-> 1, limit |-> 1, endAt |-> 1,
   bundleSize |-> 1, dryRun |-> FALSE, overwrite |-> FALSE, debug |-> FALSE,
   scanOrigin |-> FALSE, scanPair |-> FALSE]

NoScan == [flagged |-> <<>>, ukOnly |-> <<>>, notStated |-> <<>>,
           errors |-> <<>>, pair |-> <<>>, single |-> <<>>]

IdleHandler ==
  /\ caseId = 0
  /\ caseText = <<>>
  /\ processed = <<>>
  /\ scan = NoScan
  /\ response = NoResponse
  /\ texts = [c \in CaseIds |-> "unread"]
  /\ blobWrites = {}
  /\ profile = NoProfile

IdleInstr ==
  /\ currentBundleStart = 0
  /\ currentItems = <<>>
  /\ bundles = <<>>
  /\ cueAttempt = 0
  /\ lastCues = <<>>

\* No function is called on its own.
NoCall == [name |-> "none"]
NoLocals == [i |-> 0]
NoResult == [kind |-> "none"]

IdleCall ==
  /\ call = NoCall
  /\ callPc = "idle"
  /\ callLocals = NoLocals
  /\ callLog = <<>>
  /\ callResult = NoResult

IdleLoop ==
  /\ expectedPeople = 1
  /\ requireChildAdult = FALSE
  /\ attempt = 0
  /\ b64 = 0
  /\ peopleOk = FALSE /\ genderOk = FALSE
  /\ clothingOk = FALSE /\ childAdultOk = FALSE
  /\ last = 0
  /\ lastPeopleOk = FALSE /\ lastGenderOk = FALSE /\ lastClothingOk = FALSE
  /\ lastChildAdultOk = FALSE
  /\ gen = NoGen
  /\ genCalls = 0
  /\ visionLog = <<>>
  /\ genderNoAt = {}

\* generateVerifiedHeadshot called with any expectedPeople and
\* requireChildAdult; the state is the one at the head of the first iteration.
InitLoop ==
  /\ req = NoRequest
  /\ pc = "GENERATE"
  /\ err = NoErr
  /\ modelCalls = {}
  /\ blobs = EmptyStore
  /\ IdleHandler
  /\ IdleInstr
  /\ IdleCall
  /\ expectedPeople \in {1, 2}
  /\ requireChildAdult \in BOOLEAN
  /\ attempt = 1
  /\ b64 = 0
  /\ peopleOk = FALSE /\ genderOk = FALSE
  /\ clothingOk = FALSE /\ childAdultOk = FALSE
  /\ last = 0
  /\ lastPeopleOk = FALSE /\ lastGenderOk = FALSE /\ lastClothingOk = FALSE
  /\ lastChildAdultOk = ~requireChildAdult
  /\ gen = NoGen
  /\ genCalls = 0
  /\ visionLog = <<>>
  /\ genderNoAt = {}

NextLoop ==
  \/ Generate
  \/ VerifyPersonCount
  \/ VerifyGender
  \/ VerifyClothing
  \/ VerifyChildAndAdult
  \/ AttemptEnd

SpecLoop == InitLoop /\ [][NextLoop]_vars

\* ------------------------------------------- claims about the loop
\* The vision model answered yes to question q about the current image.
LogYes(q) ==
  \E i \in 1..Len(visionLog) :
    visionLog[i].q = q /\ visionLog[i].yes /\ visionLog[i].img = b64

\* Every applicable check was answered yes on the current attempt's image.
AttemptPassed ==
  /\ LogYes("people") /\ LogYes("gender") /\ LogYes("clothing")
  /\ requireChildAdult => LogYes("childAdult")

\* The count check of the current attempt was answered no.
PeopleFailed ==
  /\ Len(visionLog) >= 1
  /\ visionLog[1].q = "people"
  /\ ~visionLog[1].yes

\* C1: the loop makes at most 3 image-generation calls and, whenever it
\* returns, the returned payload is non-empty, also when every check of the
\* final attempt failed.
C1_AtMostThreeAttemptsNonEmptyPayload ==
  /\ genCalls <= MaxAttempts
  /\ pc = "returned" => (gen.b64 # 0 /\ gen.attempts \in 1..MaxAttempts)

C1_Witness ==
  /\ pc = "returned" /\ gen.attempts = MaxAttempts /\ gen.b64 # 0
  /\ requireChildAdult
  /\ ~gen.peopleOk /\ ~gen.genderOk /\ ~gen.clothingOk /\ ~gen.childAdultOk

\* C2: the loop returns on the first attempt k whose own image passed every
\* applicable check: the result is that attempt's image with attempts = k and
\* all flags true, k generation calls were made, every recorded answer is
\* about the returned image, an attempt that did not pass is never returned
\* before the last one, and no attempt follows one that passed.
C2_AcceptsFirstPassingAttempt ==
  /\ (pc = "returned" /\ AttemptPassed) =>
        /\ gen = [b64 |-> attempt, attempts |-> attempt, peopleOk |-> TRUE,
                  genderOk |-> TRUE, clothingOk |-> TRUE, childAdultOk |-> TRUE]
        /\ genCalls = attempt
        /\ b64 = attempt
  /\ (pc = "returned" /\ ~AttemptPassed) => attempt = MaxAttempts
  /\ (pc = "GENERATE" /\ attempt > 1) => ~AttemptPassed
  /\ \A i \in 1..Len(visionLog) : visionLog[i].img = b64
  /\ pc = "returned" =>
        (gen.peopleOk /\ gen.genderOk /\ gen.clothingOk /\ gen.childAdultOk)
          = AttemptPassed

\* The scenario of the claim: gender answered no on attempts 1 and 2 and yes
\* on attempt 3, the other checks passing.
C2_Witness ==
  /\ pc = "returned" /\ genderNoAt = {1, 2}
  /\ gen.attempts = 3 /\ gen.b64 = 3 /\ gen.genderOk
  /\ gen.peopleOk /\ gen.clothingOk /\ gen.childAdultOk

\* C3: when the loop returns without a passing attempt, it returns after the
\* third attempt, with the third image and with flags equal to the answers
\* given about that image (an unasked check counting as false, the
\* child+adult check as true when it is not required).
C3_ExhaustionReportsLastAttempt ==
  (pc = "returned" /\ ~AttemptPassed) =>
     /\ gen.attempts = MaxAttempts
     /\ genCalls = MaxAttempts
     /\ gen.b64 = MaxAttempts
     /\ gen.peopleOk = LogYes("people")
     /\ gen.genderOk = LogYes("gender")
     /\ gen.clothingOk = LogYes("clothing")
     /\ gen.childAdultOk = (requireChildAdult => LogYes("childAdult"))

C3_Witness ==
  /\ pc = "returned" /\ ~AttemptPassed
  /\ gen.peopleOk /\ ~gen.genderOk /\ gen.clothingOk
  /\ requireChildAdult /\ ~gen.childAdultOk

\* C4: once the count check of an attempt was answered no, no other vision
\* call is made for that attempt and its gender, clothing and (when required)
\* child+adult results are false.
C4_CountFailureShortCircuits ==
  PeopleFailed =>
     /\ Len(visionLog) = 1
     /\ pc \in {"CHECK_CLOTHING", "CHECK_CHILD_ADULT", "DECIDE"} => ~genderOk
     /\ pc \in {"CHECK_CHILD_ADULT", "DECIDE"} => ~clothingOk
     /\ (pc = "DECIDE" /\ requireChildAdult) => ~childAdultOk
     /\ pc \in {"GENERATE", "returned"} =>
           /\ ~lastPeopleOk /\ ~lastGenderOk /\ ~lastClothingOk
           /\ requireChildAdult => ~lastChildAdultOk

C4_Witness ==
  /\ pc = "DECIDE" /\ PeopleFailed /\ requireChildAdult
  /\ ~genderOk /\ ~clothingOk /\ ~childAdultOk


\* =================================================== image pipeline handler
\* ------------------------------------------------------------ getCaseText
\* Aggregated texts a case may have: none, whitespace only, some text.
CaseTexts == { <<>>, <<" ", "\n">>, <<"A", "g", "e", ":", " ", "4">> }

\* What table.select(...).firstPage() and the aggregation give: an error
\* with the upstream status, or the combined text.
ReadOutcomes ==
  { [kind |-> "error", text |-> <<>>, status |-> st] : st \in ErrStatuses }
    \cup { [kind |-> "ok", text |-> t, status |-> 0] : t \in CaseTexts }

\* e.status = err?.statusCode || err?.status || 500;
ReadError(st) ==
  [message |-> "AIRTABLE_READ_FAILED", status |-> IF st = 0 THEN 500 ELSE st]

\* if (!caseText.trim())
IsBlank_OnlyEmpty(text) == text = <<>>
IsBlank_Never(text) == FALSE
IsBlank(text) == trim(text) = <<>>

\* What a read gave, for the record kept in texts.
TextKind(rd) ==
  IF rd.kind = "error" THEN "failed"
  ELSE IF \A i \in 1..Len(rd.text) : IsSpace(rd.text[i]) THEN "empty"
       ELSE "text"

\* ------------------------------------------------------- parseAgeNumber
\* String(ageStr || "").match(/(\d{1,3})/): the first run of digits, at most
\* three of them, as a number; -1 stands for null.
RECURSIVE DigitRun(_, _, _, _)
DigitRun(s, i, n, acc) ==
  IF n = 0 \/ i > Len(s) \/ ~IsDigit(s[i]) THEN acc
  ELSE DigitRun(s, i + 1, n - 1, 10 * acc + DigitValue(s[i]))

parseAgeNumber(ageStr) ==
  IF \E i \in 1..Len(ageStr) : IsDigit(ageStr[i])
  THEN LET first == CHOOSE i \in 1..Len(ageStr) :
                      /\ IsDigit(ageStr[i])
                      /\ \A j \in 1..(i - 1) : ~IsDigit(ageStr[j])
       IN  DigitRun(ageStr, first, 3, 0)
  ELSE -1

\* ageN != null && ageN < 6
IsYoungChild(ageStr) ==
  parseAgeNumber(ageStr) # -1 /\ parseAgeNumber(ageStr) < ChildAgeThreshold

\* ---------------------------------------------------------- makeProfile
\* Age strings the profile model may return.
AgeStrings == { <<"4">>, <<"3", "5">>, <<"a", "d", "u", "l", "t">> }

\* Outcome classes of the profile extraction call: the remote call fails,
\* the answer holds no JSON object, a required key is missing, gender or
\* build cannot be normalised, or a profile is returned.
ProfileResponses ==
  { [kind |-> k, age |-> <<>>] :
      k \in {"error", "noJson", "missingKey", "badGender", "badBuild"} }
    \cup { [kind |-> "ok", age |-> a] : a \in AgeStrings }

makeProfile(resp) ==
  CASE resp.kind = "error" ->
         [threw |-> TRUE, msg |-> "API_ERROR", profile |-> NoProfile]
    [] resp.kind = "noJson" ->
         [threw |-> TRUE, msg |-> "PROFILE_JSON_PARSE_FAILED", profile |-> NoProfile]
    [] resp.kind = "missingKey" ->
         [threw |-> TRUE, msg |-> "PROFILE_JSON_MISSING_KEY", profile |-> NoProfile]
    [] resp.kind = "badGender" ->
         [threw |-> TRUE, msg |-> "PROFILE_JSON_BAD_GENDER", profile |-> NoProfile]
    [] resp.kind = "badBuild" ->
         [threw |-> TRUE, msg |-> "PROFILE_JSON_BAD_BUILD", profile |-> NoProfile]
    [] OTHER ->
         [threw |-> FALSE, msg |-> "none",
          profile |-> [age |-> resp.age, composition |-> "unset",
                       companion |-> NoCompanion]]

\* ---------------------------------------------------- decideComposition
\* normalizeGender: "female" is looked for before "male".
normalizeGender(raw) ==
  LET t == toLowerCase(raw) IN
    IF includes(t, <<"f","e","m","a","l","e">>) THEN "female-presenting"
    ELSE IF includes(t, <<"m","a","l","e">>) THEN "male-presenting"
    ELSE "null"

\* What the composition model may put under "companion": null, a value that
\* is no object, or an object with a gender text.
RawCompanions ==
  { [kind |-> "null", role |-> "", gender |-> <<>>],
    [kind |-> "text", role |-> "", gender |-> <<>>],
    [kind |-> "object", role |-> "mother", gender |-> <<"M","a","l","e">>],
    [kind |-> "object", role |-> "", gender |-> <<"?">>] }

CompositionResponses ==
  { [kind |-> k, composition |-> "single", confidence |-> "low",
     companion |-> [kind |-> "null", role |-> "", gender |-> <<>>]] :
      k \in {"error", "noJson"} }
    \cup { [kind |-> "json", composition |-> c, confidence |-> f, companion |-> x] :
             c \in {"single", "pair", "group"},
             f \in {"high", "medium", "low", "certain"},
             x \in RawCompanions }

DefaultCompanion_Null == NoCompanion

\* parsed.companion = { role: "guardian", gender_presentation:
\*   "female-presenting", age: "adult", notes: "present with patient" };
DefaultCompanion ==
  [role |-> "guardian", gender_presentation |-> "female-presenting"]

decideComposition(resp) ==
  IF resp.kind # "json"
  THEN [threw |-> TRUE,
        msg |-> IF resp.kind = "error" THEN "API_ERROR"
                ELSE "COMPOSITION_JSON_PARSE_FAILED",
        composition |-> "single", confidence |-> "low", companion |-> NoCompanion]
  ELSE
    LET composition == IF resp.composition \in {"single", "pair"}
                       THEN resp.composition ELSE "single"
        confidence  == IF resp.confidence \in {"high", "medium", "low"}
                       THEN resp.confidence ELSE "low"
        g           == normalizeGender(resp.companion.gender)
    IN  IF composition = "pair"
        THEN IF resp.companion.kind # "object"
             THEN [threw |-> FALSE, msg |-> "none", composition |-> "pair",
                   confidence |-> IF confidence = "high" THEN "medium"
                                  ELSE confidence,
                   companion |-> DefaultCompanion]
             ELSE [threw |-> FALSE, msg |-> "none", composition |-> "pair",
                   confidence |-> confidence,
                   companion |->
                     [role |-> IF resp.companion.role = "" THEN "guardian"
                               ELSE resp.companion.role,
                      gender_presentation |->
                        IF g = "null" THEN "female-presenting" ELSE g]]
        ELSE [threw |-> FALSE, msg |-> "none", composition |-> "single",
              confidence |-> confidence, companion |-> NoCompanion]

\* forceChildPairIfNeeded applied to a profile that carries the decision.
ForcedCompanion ==
  [role |-> "parent/guardian", gender_presentation |-> "female-presenting"]

\* A rule that forces the composition and leaves a null companion null.
forceChildPairIfNeeded_KeepsNullCompanion(p) ==
  IF IsYoungChild(p.age) THEN [p EXCEPT !.composition = "pair"] ELSE p

forceChildPairIfNeeded(p) ==
  IF IsYoungChild(p.age)
  THEN [p EXCEPT !.composition = "pair",
                 !.companion = IF p.companion = NoCompanion THEN ForcedCompanion
                               ELSE p.companion]
  ELSE p

\* const isPair = profile.composition === "pair" && !!profile.companion;
isPair(p) == p.composition = "pair" /\ p.companion # NoCompanion


\* ------------------------------------------------------ handler: request
\* The mode the handler runs in: scanOrigin is tested first, then scanPair.
Mode ==
  IF req.scanOrigin THEN "scanOrigin"
  ELSE IF req.scanPair THEN "scanPair" ELSE "batch"

\* Requests of the image pipeline. bundleSize is not a parameter of this
\* handler. A parameter that the mode of the request never reads is left
\* out of the request (it takes its default): endAt in batch mode,
\* overwrite and debug in the scan modes. limit is kept in the scan modes,
\* whose loops run to endAt without reading it.
ImageRequests ==
  { r \in [secret : {"good", "bad", "none"}, startFrom : 1..MaxCase,
           limit : 0..MaxLimit, endAt : 1..MaxCase, bundleSize : {1},
           dryRun : BOOLEAN, overwrite : BOOLEAN, debug : BOOLEAN,
           scanOrigin : BOOLEAN, scanPair : BOOLEAN] :
      IF r.scanOrigin \/ r.scanPair
      THEN ~r.overwrite /\ ~r.debug
      ELSE r.endAt = MaxCase }

Entry(id, status) == [caseId |-> id, status |-> status]

\* A row of the scanPair response (tableName, reason, evidence and
\* confidence left out).
ScanRow(id, age, composition, companion) ==
  [caseId |-> id, age |-> age, composition |-> composition,
   companion |-> companion]

\* The locals of generateVerifiedHeadshot once it has returned.
LocalsLeft ==
  /\ expectedPeople' = 1
  /\ requireChildAdult' = FALSE
  /\ attempt' = 0
  /\ b64' = 0
  /\ peopleOk' = FALSE /\ genderOk' = FALSE
  /\ clothingOk' = FALSE /\ childAdultOk' = FALSE
  /\ last' = 0
  /\ lastPeopleOk' = FALSE /\ lastGenderOk' = FALSE /\ lastClothingOk' = FALSE
  /\ lastChildAdultOk' = FALSE
  /\ genCalls' = 0
  /\ visionLog' = <<>>
  /\ genderNoAt' = {}

\* The same once its result is no longer in scope either.
LoopLeft == LocalsLeft /\ gen' = NoGen

\* The next iteration of a case loop (continue, or the end of the body).
NextCase ==
  /\ caseId' = caseId + 1
  /\ caseText' = <<>>
  /\ profile' = NoProfile
  /\ pc' = "loop"
  /\ err' = NoErr

\* res.status(st).json({ ok, ... }) ends the invocation.
Respond(st, ok, kind) ==
  /\ response' = [status |-> st, ok |-> ok, kind |-> kind]
  /\ pc' = "done"

\* A handler that reads the parameters without looking at the header.
RequireSecret_NoCheck ==
  /\ pc = "start"
  /\ caseId' = req.startFrom
  /\ pc' = "loop"
  /\ UNCHANGED << response, err, modelCalls, loopVars, instrVars, req,
                  caseText, processed, scan, texts, blobWrites, blobs,
                  profile >>
  /\ UNCHANGED fnVars

\* requireSecret(req) throws a 401 error that the outer catch answers with;
\* otherwise the parameters are read and the loop of the mode starts.
RequireSecret ==
  /\ pc = "start"
  /\ IF req.secret # "good"
     THEN /\ Respond(401, FALSE, "error")
          /\ UNCHANGED caseId
     ELSE /\ caseId' = req.startFrom
          /\ pc' = "loop"
          /\ UNCHANGED response
  /\ UNCHANGED << err, modelCalls, loopVars, instrVars, req, caseText,
                  processed, scan, texts, blobWrites, blobs, profile >>
  /\ UNCHANGED fnVars

\* A batch loop without the test of processed.length.
LoopContinues_IgnoresLimit ==
  IF Mode = "batch" THEN caseId <= MaxCase ELSE caseId <= req.endAt

\* for (caseId = startFrom; caseId <= endAt; ...) in the scan modes,
\* for (...; caseId <= maxCase; ...) { if (processed.length >= limit) break;
\* in batch mode.
LoopContinues ==
  IF Mode = "batch"
  THEN caseId <= MaxCase /\ Len(processed) < req.limit
  ELSE caseId <= req.endAt

\* const { tableName, caseText } = await getCaseText(caseId);
ReadCase(rd) ==
  /\ texts' = [texts EXCEPT ![caseId] = TextKind(rd)]
  /\ caseText' = rd.text

\* ------------------------------------------------------ scanOrigin mode
ScanOriginRead ==
  /\ pc = "loop" /\ Mode = "scanOrigin" /\ LoopContinues
  /\ \E rd \in ReadOutcomes :
       /\ ReadCase(rd)
       /\ IF rd.kind = "error"
          THEN Throw(ReadError(rd.status)) /\ UNCHANGED << scan, caseId >>
          ELSE IF IsBlank(rd.text)
               THEN /\ scan' = [scan EXCEPT !.notStated = Append(@, caseId)]
                    /\ caseId' = caseId + 1
                    /\ UNCHANGED << pc, err >>
               ELSE /\ pc' = "extractOrigin"
                    /\ UNCHANGED << scan, caseId, err >>
  /\ UNCHANGED << modelCalls, loopVars, instrVars, req, processed, response,
                  blobWrites, blobs, profile >>
  /\ UNCHANGED fnVars

OriginResponses ==
  {"error", "noJson", "explicit-non-uk", "explicit-mixed", "explicit-uk",
   "not-stated", "other"}

\* const r = await extractOriginFlag(caseText, caseId); the row goes to
\* flagged, ukOnly or notStated.
ExtractOrigin ==
  /\ pc = "extractOrigin"
  /\ modelCalls' = modelCalls \cup {TextCall}
  /\ \E resp \in OriginResponses, st \in ErrStatuses :
       /\ resp # "error" => st = 0
       /\ IF resp = "error"
          THEN Throw(ApiError(st)) /\ UNCHANGED << scan, caseId, caseText >>
          ELSE IF resp = "noJson"
               THEN /\ Throw([message |-> "ORIGIN_SCAN_JSON_PARSE_FAILED",
                              status |-> 0])
                    /\ UNCHANGED << scan, caseId, caseText >>
               ELSE /\ scan' =
                         IF resp \in {"explicit-non-uk", "explicit-mixed"}
                         THEN [scan EXCEPT !.flagged = Append(@, caseId)]
                         ELSE IF resp = "explicit-uk"
                              THEN [scan EXCEPT !.ukOnly = Append(@, caseId)]
                              ELSE [scan EXCEPT !.notStated = Append(@, caseId)]
                    /\ caseId' = caseId + 1
                    /\ caseText' = <<>>
                    /\ pc' = "loop"
                    /\ UNCHANGED err
  /\ UNCHANGED << loopVars, instrVars, req, processed, response, texts,
                  blobWrites, blobs, profile >>
  /\ UNCHANGED fnVars

\* ------------------------------------------------------- scanPair mode
ScanPairRead ==
  /\ pc = "loop" /\ Mode = "scanPair" /\ LoopContinues
  /\ \E rd \in ReadOutcomes :
       /\ ReadCase(rd)
       /\ IF rd.kind = "error"
          THEN Throw(ReadError(rd.status)) /\ UNCHANGED << scan, caseId >>
          ELSE IF IsBlank(rd.text)
               THEN /\ scan' = [scan EXCEPT !.single =
                                  Append(@, ScanRow(caseId, <<>>, "single",
                                                    NoCompanion))]
                    /\ caseId' = caseId + 1
                    /\ UNCHANGED << pc, err >>
               ELSE /\ pc' = "makeProfile"
                    /\ UNCHANGED << scan, caseId, err >>
  /\ UNCHANGED << modelCalls, loopVars, instrVars, req, processed, response,
                  blobWrites, blobs, profile >>
  /\ UNCHANGED fnVars

\* A catch block that goes on to the next case without a row.
ScanCatch_DropsCase ==
  /\ pc = "thrown" /\ Mode # "batch"
  /\ NextCase
  /\ UNCHANGED << modelCalls, loopVars, instrVars, req, processed, response,
                  texts, blobWrites, blobs, scan >>
  /\ UNCHANGED fnVars

\* catch (e) { errors.push({ caseId, error: extractErr(e) }); } in either
\* scan loop.
ScanCatch ==
  /\ pc = "thrown" /\ Mode # "batch"
  /\ scan' = [scan EXCEPT !.errors = Append(@, caseId)]
  /\ NextCase
  /\ UNCHANGED << modelCalls, loopVars, instrVars, req, processed, response,
                  texts, blobWrites, blobs >>
  /\ UNCHANGED fnVars

\* return res.status(200).json({ ok: true, scanOrigin / scanPair: true, ... })
ScanRespond ==
  /\ pc = "loop" /\ Mode # "batch" /\ ~LoopContinues
  /\ Respond(200, TRUE, Mode)
  /\ UNCHANGED << err, modelCalls, loopVars, instrVars, req, caseId, caseText,
                  processed, scan, texts, blobWrites, blobs, profile >>
  /\ UNCHANGED fnVars


\* ----------------------------------------------------------- batch mode
\* getCaseText, then the no-text and the dryRun exits of the loop body.
BatchRead ==
  /\ pc = "loop" /\ Mode = "batch" /\ LoopContinues
  /\ \E rd \in ReadOutcomes :
       /\ ReadCase(rd)
       /\ IF rd.kind = "error"
          THEN Throw(ReadError(rd.status)) /\ UNCHANGED << processed, caseId >>
          ELSE IF IsBlank(rd.text)
               THEN /\ processed' = Append(processed, Entry(caseId, "no-text"))
                    /\ caseId' = caseId + 1
                    /\ UNCHANGED << pc, err >>
               ELSE IF req.dryRun
                    THEN /\ processed' =
                              Append(processed, Entry(caseId, "dryrun-ok"))
                         /\ caseId' = caseId + 1
                         /\ UNCHANGED << pc, err >>
                    ELSE /\ pc' = "makeProfile"
                         /\ UNCHANGED << processed, caseId, err >>
  /\ UNCHANGED << modelCalls, loopVars, instrVars, req, scan, response,
                  blobWrites, blobs, profile >>
  /\ UNCHANGED fnVars

\* const profile = await makeProfile(caseText, caseId); (batch and scanPair)
MakeProfile ==
  /\ pc = "makeProfile"
  /\ modelCalls' = modelCalls \cup {TextCall}
  /\ \E resp \in ProfileResponses, st \in ErrStatuses :
       LET r == makeProfile(resp) IN
         /\ resp.kind # "error" => st = 0
         /\ IF r.threw
            THEN Throw([message |-> r.msg, status |-> st]) /\ UNCHANGED profile
            ELSE /\ profile' = r.profile
                 /\ pc' = "decideComposition"
                 /\ UNCHANGED err
  /\ UNCHANGED << loopVars, instrVars, req, caseId, caseText, processed, scan,
                  response, texts, blobWrites, blobs >>
  /\ UNCHANGED fnVars

\* scanPair:
\*   let composition = comp.composition;
\*   if (ageN != null && ageN < 6) composition = "pair";
\*   const row = { caseId, age: profile.age, composition, ...,
\*                 companion: composition === "pair" ? comp.companion : null };
\*   if (composition === "pair") pair.push(row); else single.push(row);
ScanPairRow(comp) ==
  LET composition == IF IsYoungChild(profile.age) THEN "pair"
                     ELSE comp.composition
      row == ScanRow(caseId, profile.age, composition,
                     IF composition = "pair" THEN comp.companion
                     ELSE NoCompanion)
  IN
  /\ scan' = IF composition = "pair"
             THEN [scan EXCEPT !.pair = Append(@, row)]
             ELSE [scan EXCEPT !.single = Append(@, row)]
  /\ NextCase
  /\ UNCHANGED << loopVars, response >>

\* A batch body without the debug return.
BatchDecided_IgnoresDebug(comp) ==
  LET p == forceChildPairIfNeeded(
             [profile EXCEPT !.composition = comp.composition,
                             !.companion = comp.companion])
  IN  /\ profile' = p
      /\ UNCHANGED << scan, caseId, caseText, err >>
      /\ LoopEntry(IF isPair(p) THEN 2 ELSE 1, IsYoungChild(p.age))
      /\ pc' = "GENERATE"
      /\ UNCHANGED response

\* batch: composition and companion are copied into the profile,
\* forceChildPairIfNeeded is applied, background and clothing colour are
\* picked; with debug=1 the handler answers here, otherwise
\* generateVerifiedHeadshot is entered.
BatchDecided(comp) ==
  LET p == forceChildPairIfNeeded(
             [profile EXCEPT !.composition = comp.composition,
                             !.companion = comp.companion])
  IN  /\ profile' = p
      /\ UNCHANGED << scan, caseId, caseText, err >>
      /\ IF req.debug
         THEN /\ Respond(200, TRUE, "debug")
              /\ UNCHANGED loopVars
         ELSE /\ LoopEntry(IF isPair(p) THEN 2 ELSE 1, IsYoungChild(p.age))
              /\ pc' = "GENERATE"
              /\ UNCHANGED response

\* const comp = await decideComposition(caseText, caseId);
DecideComposition ==
  /\ pc = "decideComposition"
  /\ modelCalls' = modelCalls \cup {TextCall}
  /\ \E resp \in CompositionResponses, st \in ErrStatuses :
       LET comp == decideComposition(resp) IN
         /\ resp.kind # "error" => st = 0
         /\ IF comp.threw
            THEN /\ Throw([message |-> comp.msg, status |-> st])
                 /\ UNCHANGED << loopVars, scan, caseId, caseText, profile,
                                 response >>
            ELSE IF Mode = "scanPair"
                 THEN ScanPairRow(comp)
                 ELSE BatchDecided(comp)
  /\ UNCHANGED << instrVars, req, processed, texts, blobWrites, blobs >>
  /\ UNCHANGED fnVars

\* What the blob service may do during one upload.
BlobWrite(path) == [path |-> path, caseId |-> caseId]

\* const imageUrl = await uploadPng(caseId, gen.b64, overwrite);
UploadPng ==
  /\ pc = "returned" /\ Mode = "batch" /\ response = NoResponse
  /\ \E found \in {"none", "old"}, h1 \in BOOLEAN, h2 \in BOOLEAN,
        putOk \in BOOLEAN, st \in ErrStatuses :
       LET u == Upload(blobs, PngPath(caseId), req.overwrite, found, h1, h2,
                       putOk) IN
         /\ ~u.threw => st = 0
         /\ blobs' = u.store
         /\ blobWrites' = IF u.wrote
                          THEN blobWrites \cup {BlobWrite(PngPath(caseId))}
                          ELSE blobWrites
         /\ IF u.threw
            THEN Throw([message |-> "BLOB_ERROR", status |-> st]) /\ LoopLeft
            ELSE pc' = "uploadJson" /\ LocalsLeft /\ UNCHANGED << err, gen >>
  /\ UNCHANGED << modelCalls, instrVars, req, caseId, caseText, processed,
                  scan, response, texts, profile >>
  /\ UNCHANGED fnVars

\* const profileUrl = await uploadJson(caseId, profileDoc, overwrite);
\* processed.push({ caseId, status: "done", ... });
UploadJson ==
  /\ pc = "uploadJson"
  /\ \E found \in {"none", "old"}, h1 \in BOOLEAN, h2 \in BOOLEAN,
        putOk \in BOOLEAN, st \in ErrStatuses :
       LET u == Upload(blobs, JsonPath(caseId), req.overwrite, found, h1, h2,
                       putOk) IN
         /\ ~u.threw => st = 0
         /\ blobs' = u.store
         /\ blobWrites' = IF u.wrote
                          THEN blobWrites \cup {BlobWrite(JsonPath(caseId))}
                          ELSE blobWrites
         /\ IF u.threw
            THEN /\ Throw([message |-> "BLOB_ERROR", status |-> st])
                 /\ LoopLeft
                 /\ UNCHANGED << processed, caseId, caseText, profile >>
            ELSE /\ processed' = Append(processed, Entry(caseId, "done"))
                 /\ NextCase
                 /\ LoopLeft
  /\ UNCHANGED << modelCalls, instrVars, req, scan, response, texts >>
  /\ UNCHANGED fnVars

\* A catch block that sends the case back to the profile extraction.
BatchCatch_RetriesExtraction ==
  /\ pc = "thrown" /\ Mode = "batch" /\ response = NoResponse
  /\ req.secret = "good"
  /\ pc' = "makeProfile"
  /\ err' = NoErr
  /\ UNCHANGED << caseId, caseText, processed, profile, loopVars >>
  /\ UNCHANGED << modelCalls, instrVars, req, scan, response, texts,
                  blobWrites, blobs >>
  /\ UNCHANGED fnVars

\* catch (e) { processed.push({ caseId, status: "error", error }); }
BatchCatch ==
  /\ pc = "thrown" /\ Mode = "batch" /\ response = NoResponse
  /\ req.secret = "good"
  /\ processed' = Append(processed, Entry(caseId, "error"))
  /\ NextCase
  /\ LoopLeft
  /\ UNCHANGED << modelCalls, instrVars, req, scan, response, texts,
                  blobWrites, blobs >>
  /\ UNCHANGED fnVars

\* res.status(200).json({ ok: true, ..., processedCount, processed });
BatchRespond ==
  /\ pc = "loop" /\ Mode = "batch" /\ ~LoopContinues
  /\ Respond(200, TRUE, "batch")
  /\ UNCHANGED << err, modelCalls, loopVars, instrVars, req, caseId, caseText,
                  processed, scan, texts, blobWrites, blobs, profile >>
  /\ UNCHANGED fnVars

\* The blob store an invocation of the image pipeline starts with: nothing
\* is known about it, or the image and the profile of case 1 are known to
\* have been written by an earlier invocation.
StoredCaseOne ==
  [p \in Paths |-> IF p \in {PngPath(1), JsonPath(1)} THEN "old"
                   ELSE "unknown"]

ImageStores == {UnknownStore, StoredCaseOne}

InitImage ==
  /\ req \in ImageRequests
  /\ pc = "start"
  /\ err = NoErr
  /\ modelCalls = {}
  /\ blobs \in ImageStores
  /\ IdleHandler
  /\ IdleInstr
  /\ IdleCall
  /\ IdleLoop

NextImage ==
  \/ RequireSecret
  \/ ScanOriginRead
  \/ ExtractOrigin
  \/ ScanPairRead
  \/ ScanCatch
  \/ ScanRespond
  \/ BatchRead
  \/ MakeProfile
  \/ DecideComposition
  \/ Generate
  \/ VerifyPersonCount
  \/ VerifyGender
  \/ VerifyClothing
  \/ VerifyChildAndAdult
  \/ AttemptEnd
  \/ UploadPng
  \/ UploadJson
  \/ BatchCatch
  \/ BatchRespond

SpecImage == InitImage /\ [][NextImage]_vars


\* ================================================== instructions pipeline
\* ------------------------------------------------------------ cue checks
IsWordChar(c) ==
  \/ \E i \in 1..Len(UpperLetters) : c = UpperLetters[i] \/ c = LowerLetters[i]
  \/ IsDigit(c)
  \/ c = "_"

\* /\bw\b/ matches t at position i (w begins and ends with a word
\* character); closed is FALSE for a pattern without the trailing \b.
WordAt(t, i, w, closed) ==
  /\ i + Len(w) - 1 <= Len(t)
  /\ SubSeq(t, i, i + Len(w) - 1) = w
  /\ i = 1 \/ ~IsWordChar(t[i - 1])
  /\ closed => (i + Len(w) > Len(t) \/ ~IsWordChar(t[i + Len(w)]))

HasWord(t, w) == \E i \in 1..Len(t) : WordAt(t, i, w, TRUE)
HasWordStart(t, w) == \E i \in 1..Len(t) : WordAt(t, i, w, FALSE)

\* /\b\d+\b/
HasNumber(t) ==
  \E i \in 1..Len(t) : \E j \in i..Len(t) :
    /\ \A k \in i..j : IsDigit(t[k])
    /\ i = 1 \/ ~IsWordChar(t[i - 1])
    /\ j = Len(t) \/ ~IsWordChar(t[j + 1])

IsStop(c) == c \in {".", "!", "?"}

\* sentenceCount: the number of runs of . ! ? in the trimmed text, 1 when
\* there is none, 0 for an empty text.
sentenceCount(s) ==
  LET t == trim(s)
      runs == { i \in 1..Len(t) : IsStop(t[i]) /\ (i = 1 \/ ~IsStop(t[i - 1])) }
  IN  IF t = <<>> THEN 0
      ELSE IF runs = {} THEN 1 ELSE Cardinality(runs)

\* hasDisallowedCuesContent(s) !== null
hasDisallowedCuesContent(s) ==
  LET t == toLowerCase(s) IN
    \/ HasWord(t, <<"b","e","c","a","u","s","e">>)
    \/ HasWord(t, <<"s","o"," ","i"," ","t","h","i","n","k">>)
    \/ HasWord(t, <<"i","t"," ","m","u","s","t">>)
    \/ HasWord(t, <<"i"," ","t","h","i","n","k">>)
    \/ HasNumber(t)
    \/ HasWordStart(t, <<"d","i","a","g","n","o","s">>)
    \/ HasWord(t, <<"r","e","d"," ","f","l","a","g">>)

\* c.length > 260
MaxCueLength == 260

validateCueSentenceFormat(s) ==
  LET c == trim(s) IN
    /\ c # <<>>
    /\ WordAt(toLowerCase(c), 1, <<"i","f">>, TRUE)
    /\ HasWord(toLowerCase(c), <<"t","h","e","n">>)
    /\ sentenceCount(c) = 1
    /\ ~hasDisallowedCuesContent(c)
    /\ Len(c) <= MaxCueLength

\* cues.map(trim).filter(Boolean)
RECURSIVE NonEmptyTrimmed(_)
NonEmptyTrimmed(cues) ==
  IF cues = <<>> THEN <<>>
  ELSE IF trim(Head(cues)) = <<>> THEN NonEmptyTrimmed(Tail(cues))
       ELSE <<trim(Head(cues))>> \o NonEmptyTrimmed(Tail(cues))

validateCues(cues) ==
  LET arr == NonEmptyTrimmed(cues) IN
    /\ Len(arr) <= 2
    /\ \A i \in 1..Len(arr) : validateCueSentenceFormat(arr[i])

\* slice(0, 2)
FirstTwo(cues) == IF Len(cues) > 2 THEN SubSeq(cues, 1, 2) ELSE cues

\* Cues a model may write.
CueIfThen == <<"I","f"," ","a",","," ","t","h","e","n"," ","b",".">>
CueNoThen == <<"I","f"," ","a",","," ","s","a","y"," ","b",".">>
CueTwoSentences == <<"I","f"," ","a","."," ","T","h","e","n"," ","b",".">>
CueNumber == <<"I","f"," ","a"," ","t","h","e","n"," ","2"," ","b",".">>

\* patient_cues arrays a model may return to composeCues / repairCues.
CueArrays ==
  { <<>>, <<CueIfThen>>, <<CueNoThen>>,
    <<CueNumber, <<" ">>, CueIfThen, CueTwoSentences>> }

\* composeCues and repairCues: cues.map(trim).filter(Boolean).slice(0, 2)
CuesOf(arr) == FirstTwo(NonEmptyTrimmed(arr))


\* ------------------------------------------------------ handler: request
\* Math.min(50, ...) for bundleSize
MaxBundleSize == 50

\* Requests of the instructions pipeline; this handler has no scan modes.
InstrRequests ==
  [secret : {"good", "bad", "none"}, startFrom : 1..MaxInstrCase,
   limit : 0..MaxInstrCase, endAt : 1..MaxInstrCase, bundleSize : 0..MaxBundle,
   dryRun : BOOLEAN, overwrite : BOOLEAN, debug : BOOLEAN,
   scanOrigin : {FALSE}, scanPair : {FALSE}]

\* const bundleSize = Math.max(1, Math.min(50, Number(req.query.bundleSize ?? 10)));
BundleSize ==
  LET capped == IF req.bundleSize > MaxBundleSize THEN MaxBundleSize
                ELSE req.bundleSize
  IN  IF capped < 1 THEN 1 ELSE capped

\* const limit = Math.max(1, Number(req.query.limit ?? bundleSize));
Limit == IF req.limit < 1 THEN 1 ELSE req.limit

\* for (caseId = startFrom; caseId <= endAt; caseId++) {
\*   if (processed.length >= limit) break;
InstrLoopContinues == caseId <= req.endAt /\ Len(processed) < Limit

\* ----------------------------------------------------------- flushBundle
\* The bundle entry pushed to bundles; items records which items it covers.
BundleEntry(startId, items, status) ==
  [start |-> startId, end |-> items[Len(items)].caseId, status |-> status,
   items |-> items]

\* flushBundle(): nothing to do without a started, non-empty group; with
\* dryRun the upload is skipped; the accumulator is reset only when the
\* upload returned.
FlushBundle(found, h1, h2, putOk) ==
  IF currentBundleStart = 0 \/ currentItems = <<>>
  THEN [threw |-> FALSE, wrote |-> FALSE, store |-> blobs,
        start |-> currentBundleStart, items |-> currentItems,
        bundles |-> bundles]
  ELSE IF req.dryRun
       THEN [threw |-> FALSE, wrote |-> FALSE, store |-> blobs, start |-> 0,
             items |-> <<>>,
             bundles |-> Append(bundles,
                           BundleEntry(currentBundleStart, currentItems,
                                       "dryrun-skip-upload"))]
       ELSE LET endId == currentItems[Len(currentItems)].caseId
                u == Upload(blobs, BundlePath(currentBundleStart, endId),
                            req.overwrite, found, h1, h2, putOk)
            IN  IF u.threw
                THEN [threw |-> TRUE, wrote |-> FALSE, store |-> u.store,
                      start |-> currentBundleStart, items |-> currentItems,
                      bundles |-> bundles]
                ELSE [threw |-> FALSE, wrote |-> u.wrote, store |-> u.store,
                      start |-> 0, items |-> <<>>,
                      bundles |-> Append(bundles,
                                    BundleEntry(currentBundleStart,
                                                currentItems, "uploaded"))]

\* The effect of one flushBundle() call on the state, but for pc and err.
Flushed(f) ==
  /\ blobs' = f.store
  /\ blobWrites' =
       IF f.wrote
       THEN blobWrites \cup
              {BlobWrite(BundlePath(currentBundleStart,
                                    currentItems[Len(currentItems)].caseId))}
       ELSE blobWrites
  /\ currentBundleStart' = f.start
  /\ currentItems' = f.items
  /\ bundles' = f.bundles

\* if (currentBundleStart == null) currentBundleStart = caseId;
\* currentItems.push(item);
\* if (currentItems.length >= bundleSize) await flushBundle();
\* The flush is a step of its own, at position flushAt.
AddToBundle(item, flushAt) ==
  /\ currentBundleStart' =
       IF currentBundleStart = 0 THEN caseId ELSE currentBundleStart
  /\ currentItems' = Append(currentItems, item)
  /\ IF Len(currentItems) + 1 >= BundleSize
     THEN pc' = flushAt /\ UNCHANGED << caseId, caseText >>
     ELSE /\ caseId' = caseId + 1
          /\ caseText' = <<>>
          /\ pc' = "loop"

InstrRequireSecret ==
  /\ pc = "start"
  /\ IF req.secret # "good"
     THEN /\ Respond(401, FALSE, "error")
          /\ UNCHANGED caseId
     ELSE /\ caseId' = req.startFrom
          /\ pc' = "loop"
          /\ UNCHANGED response
  /\ UNCHANGED << err, modelCalls, loopVars, instrVars, req, caseText,
                  processed, scan, texts, blobWrites, blobs, profile >>
  /\ UNCHANGED fnVars

\* getCaseText, then the no-text and the dryRun exits of the loop body.
InstrRead ==
  /\ pc = "loop" /\ InstrLoopContinues
  /\ \E rd \in ReadOutcomes :
       /\ texts' = [texts EXCEPT ![caseId] = TextKind(rd)]
       /\ IF rd.kind = "error"
          THEN /\ Throw(ReadError(rd.status))
               /\ caseText' = rd.text
               /\ UNCHANGED << processed, caseId, currentBundleStart,
                               currentItems >>
          ELSE IF IsBlank(rd.text) \/ req.dryRun
               THEN LET item == Entry(caseId, IF IsBlank(rd.text) THEN "no-text"
                                              ELSE "dryrun-ok")
                    IN  /\ processed' = Append(processed, item)
                        /\ AddToBundle(item, "flushInTry")
                        /\ UNCHANGED err
               ELSE /\ pc' = "getInstructionFields"
                    /\ caseText' = rd.text
                    /\ UNCHANGED << processed, caseId, err,
                                    currentBundleStart, currentItems >>
  /\ UNCHANGED << modelCalls, loopVars, req, scan, response, blobWrites,
                  blobs, profile, bundles, cueAttempt, lastCues >>
  /\ UNCHANGED fnVars

\* const input = await getInstructionFields(caseId); a second datastore read
InstrGetFields ==
  /\ pc = "getInstructionFields"
  /\ \E ok \in BOOLEAN, st \in ErrStatuses :
       /\ ok => st = 0
       /\ IF ok THEN pc' = "generateMain" /\ UNCHANGED err
          ELSE Throw([message |-> "AIRTABLE_ERROR", status |-> st])
  /\ UNCHANGED << modelCalls, loopVars, instrVars, handlerVars >>
  /\ UNCHANGED fnVars


\* What llmJson may give generateMain: the call fails, the answer holds no
\* JSON object, the instructions do not start with "You are", the opening
\* line is not one sentence, or both fields are fine.
MainResponses == {"error", "noJson", "badStart", "badOpening", "ok"}

generateMain(resp) ==
  CASE resp = "error"      -> [threw |-> TRUE, msg |-> "API_ERROR"]
    [] resp = "noJson"     -> [threw |-> TRUE, msg |-> "LLM_JSON_PARSE_FAILED"]
    [] resp = "badStart"   -> [threw |-> TRUE, msg |-> "INSTRUCTION_BAD_START"]
    [] resp = "badOpening" -> [threw |-> TRUE, msg |-> "OPENING_LINE_BAD"]
    [] OTHER               -> [threw |-> FALSE, msg |-> "none"]

\* const main = await generateMain(caseText, input, caseId); then
\* generateCuesPrioritised starts: last = [], attempt = 1.
GenerateMain ==
  /\ pc = "generateMain"
  /\ modelCalls' = modelCalls \cup {TextCall}
  /\ \E resp \in MainResponses, st \in ErrStatuses :
       /\ resp # "error" => st = 0
       /\ IF generateMain(resp).threw
          THEN /\ Throw([message |-> generateMain(resp).msg, status |-> st])
               /\ UNCHANGED << cueAttempt, lastCues >>
          ELSE /\ pc' = "planCues"
               /\ cueAttempt' = 1
               /\ lastCues' = <<>>
               /\ UNCHANGED err
  /\ UNCHANGED << loopVars, handlerVars, currentBundleStart, currentItems,
                  bundles >>
  /\ UNCHANGED fnVars

\* The outcome of one llmJson call: it throws (the call failed or the answer
\* held no JSON object) or it returns.
LlmThrows == {"error", "noJson"}

LlmError(resp, st) ==
  [message |-> IF resp = "error" THEN "API_ERROR" ELSE "LLM_JSON_PARSE_FAILED",
   status |-> st]

\* const plan = await planCues(caseText, input, caseId);
PlanCues ==
  /\ pc = "planCues"
  /\ modelCalls' = modelCalls \cup {TextCall}
  /\ \E resp \in LlmThrows \cup {"ok"}, st \in ErrStatuses :
       /\ resp # "error" => st = 0
       /\ IF resp \in LlmThrows
          THEN Throw(LlmError(resp, st))
          ELSE pc' = "composeCues" /\ UNCHANGED err
  /\ UNCHANGED << loopVars, handlerVars, instrVars >>
  /\ UNCHANGED fnVars

\* A cue stage that returns whatever the model wrote.
CuesAccepted_Any(cues) == TRUE

\* if (v.ok) return last; after composeCues or repairCues
CuesAccepted(cues) == validateCues(cues)

\* for (let attempt = 1; attempt <= 3; attempt++)
HasNextCycle(a) == a < MaxAttempts

\* const composed = await composeCues(...); last = composed;
\* const v = validateCues(last); if (v.ok) return last;
ComposeCues ==
  /\ pc = "composeCues"
  /\ modelCalls' = modelCalls \cup {TextCall}
  /\ \E resp \in LlmThrows \cup {"ok"}, arr \in CueArrays, st \in ErrStatuses :
       /\ resp # "error" => st = 0
       /\ resp \in LlmThrows => arr = <<>>
       /\ IF resp \in LlmThrows
          THEN Throw(LlmError(resp, st)) /\ UNCHANGED lastCues
          ELSE /\ lastCues' = CuesOf(arr)
               /\ pc' = IF CuesAccepted(CuesOf(arr)) THEN "cuesReturned"
                        ELSE "repairCues"
               /\ UNCHANGED err
  /\ UNCHANGED << loopVars, handlerVars, currentBundleStart, currentItems,
                  bundles, cueAttempt >>
  /\ UNCHANGED fnVars

\* const repaired = await repairCues(caseText, last, caseId); last = repaired;
\* const v2 = validateCues(last); if (v2.ok) return last;
\* then the next cycle or, after the third, return last.slice(0, 2).
RepairCues ==
  /\ pc = "repairCues"
  /\ modelCalls' = modelCalls \cup {TextCall}
  /\ \E resp \in LlmThrows \cup {"ok"}, arr \in CueArrays, st \in ErrStatuses :
       /\ resp # "error" => st = 0
       /\ resp \in LlmThrows => arr = <<>>
       /\ IF resp \in LlmThrows
          THEN Throw(LlmError(resp, st)) /\ UNCHANGED << lastCues, cueAttempt >>
          ELSE /\ UNCHANGED err
               /\ IF CuesAccepted(CuesOf(arr))
                  THEN /\ lastCues' = CuesOf(arr)
                       /\ pc' = "cuesReturned"
                       /\ UNCHANGED cueAttempt
                  ELSE IF HasNextCycle(cueAttempt)
                       THEN /\ lastCues' = CuesOf(arr)
                            /\ cueAttempt' = cueAttempt + 1
                            /\ pc' = "planCues"
                       ELSE /\ lastCues' = FirstTwo(CuesOf(arr))
                            /\ pc' = "cuesReturned"
                            /\ UNCHANGED cueAttempt
  /\ UNCHANGED << loopVars, handlerVars, currentBundleStart, currentItems,
                  bundles >>
  /\ UNCHANGED fnVars

\* processed.push({ caseId, status: "done", ... });
\* if (debug) return res.status(200).json({ ok: true, debug: true, item });
\* otherwise the item, which carries input and output, joins the bundle.
InstrPushDone ==
  /\ pc = "cuesReturned"
  /\ processed' = Append(processed, Entry(caseId, "done"))
  /\ cueAttempt' = 0
  /\ lastCues' = <<>>
  /\ IF req.debug
     THEN /\ Respond(200, TRUE, "debug")
          /\ UNCHANGED << caseId, caseText, currentBundleStart, currentItems >>
     ELSE /\ AddToBundle(Entry(caseId, "output"), "flushInTry")
          /\ UNCHANGED response
  /\ UNCHANGED << err, modelCalls, loopVars, req, scan, texts, blobWrites,
                  blobs, profile, bundles >>
  /\ UNCHANGED fnVars

\* await flushBundle() inside the try block of the loop body
FlushInTry ==
  /\ pc = "flushInTry"
  /\ \E found \in {"none", "old"}, h1 \in BOOLEAN, h2 \in BOOLEAN,
        putOk \in BOOLEAN, st \in ErrStatuses :
       LET f == FlushBundle(found, h1, h2, putOk) IN
         /\ ~f.threw => st = 0
         /\ Flushed(f)
         /\ IF f.threw
            THEN /\ Throw([message |-> "BLOB_ERROR", status |-> st])
                 /\ UNCHANGED << caseId, caseText >>
            ELSE /\ caseId' = caseId + 1
                 /\ caseText' = <<>>
                 /\ pc' = "loop"
                 /\ UNCHANGED err
  /\ UNCHANGED << modelCalls, loopVars, req, processed, scan, response, texts,
                  profile, cueAttempt, lastCues >>
  /\ UNCHANGED fnVars

\* catch (e) { const item = { caseId, status: "error", ... };
\*   processed.push(item); ...currentItems.push(item);
\*   if (currentItems.length >= bundleSize) await flushBundle(); }
InstrCatch ==
  /\ pc = "thrown"
  /\ processed' = Append(processed, Entry(caseId, "error"))
  /\ AddToBundle(Entry(caseId, "error"), "flushInCatch")
  /\ err' = NoErr
  /\ cueAttempt' = 0
  /\ lastCues' = <<>>
  /\ UNCHANGED << modelCalls, loopVars, req, scan, response, texts,
                  blobWrites, blobs, profile, bundles >>
  /\ UNCHANGED fnVars

\* } catch (e) { const status = e?.status || 500;
\*   return res.status(status).json({ ok: false, ... }); }
OuterCatch(e) ==
  Respond(IF e.status = 0 THEN 500 ELSE e.status, FALSE, "error")

\* await flushBundle() inside the catch block: what it throws reaches the
\* outer catch of the handler.
FlushInCatch ==
  /\ pc = "flushInCatch"
  /\ \E found \in {"none", "old"}, h1 \in BOOLEAN, h2 \in BOOLEAN,
        putOk \in BOOLEAN, st \in ErrStatuses :
       LET f == FlushBundle(found, h1, h2, putOk) IN
         /\ ~f.threw => st = 0
         /\ Flushed(f)
         /\ IF f.threw
            THEN /\ OuterCatch([message |-> "BLOB_ERROR", status |-> st])
                 /\ UNCHANGED << caseId, caseText >>
            ELSE /\ caseId' = caseId + 1
                 /\ caseText' = <<>>
                 /\ pc' = "loop"
                 /\ UNCHANGED response
  /\ UNCHANGED << err, modelCalls, loopVars, req, processed, scan, texts,
                  profile, cueAttempt, lastCues >>
  /\ UNCHANGED fnVars

\* After the loop: await flushBundle(); return res.status(200).json({...});
FinalFlush ==
  /\ pc = "loop" /\ ~InstrLoopContinues
  /\ \E found \in {"none", "old"}, h1 \in BOOLEAN, h2 \in BOOLEAN,
        putOk \in BOOLEAN, st \in ErrStatuses :
       LET f == FlushBundle(found, h1, h2, putOk) IN
         /\ ~f.threw => st = 0
         /\ Flushed(f)
         /\ IF f.threw
            THEN OuterCatch([message |-> "BLOB_ERROR", status |-> st])
            ELSE Respond(200, TRUE, "batch")
  /\ UNCHANGED << err, modelCalls, loopVars, req, caseId, caseText, processed,
                  scan, texts, profile, cueAttempt, lastCues >>
  /\ UNCHANGED fnVars

\* The blob store an invocation of the instructions pipeline starts with:
\* nothing is known about it, or the bundle of case 1 alone is known to have
\* been written by an earlier invocation.
StoredBundleOne ==
  [p \in Paths |-> IF p = BundlePath(1, 1) THEN "old" ELSE "unknown"]

InstrStores == {UnknownStore, StoredBundleOne}

InitInstr ==
  /\ req \in InstrRequests
  /\ pc = "start"
  /\ err = NoErr
  /\ modelCalls = {}
  /\ blobs \in InstrStores
  /\ IdleHandler
  /\ IdleInstr
  /\ IdleCall
  /\ IdleLoop

NextInstr ==
  \/ InstrRequireSecret
  \/ InstrRead
  \/ InstrGetFields
  \/ GenerateMain
  \/ PlanCues
  \/ ComposeCues
  \/ RepairCues
  \/ InstrPushDone
  \/ FlushInTry
  \/ InstrCatch
  \/ FlushInCatch
  \/ FinalFlush

SpecInstr == InitInstr /\ [][NextInstr]_vars


\* ------------------------------------------- claims about the handlers
\* Case c was attempted: its text was asked of the datastore.
Attempted(c) == texts[c] # "unread"

\* How many entries of processed are about case c.
EntriesOf(c) == Cardinality({ i \in 1..Len(processed) : processed[i].caseId = c })

\* The handler has sent the batch response (200, ok, the processed list).
BatchResponded == pc = "done" /\ response.kind = "batch"

\* C5: in batch mode, with more case identifiers in the range than the
\* limit K allows, exactly K cases are attempted and the processed list of
\* the response has length K.
C5_LimitCapsAttemptedCases ==
  (BatchResponded /\ req.endAt - req.startFrom + 1 > Limit) =>
     /\ Cardinality({ c \in CaseIds : Attempted(c) }) = Limit
     /\ Len(processed) = Limit

\* C6: an exception raised while a case is processed becomes an error record
\* of that case and the loop goes on; the response of an authorised request
\* is never a non-200 failure.
C6_CaseFailureNeverAbortsBatch ==
  (pc = "done" /\ req.secret = "good") => (response.status = 200 /\ response.ok)

\* C7: every attempted case appears exactly once in processed, with one of
\* the statuses no-text, dryrun-ok, done, error.
C7_OneTerminalStatusPerCase ==
  /\ \A i \in 1..Len(processed) :
       processed[i].status \in {"no-text", "dryrun-ok", "done", "error"}
  /\ \A c \in CaseIds : EntriesOf(c) <= 1
  /\ BatchResponded => \A c \in CaseIds : Attempted(c) => EntriesOf(c) = 1

\* C8: with dryRun=1 no call is made to the text, vision or image model and
\* no blob is written during the whole invocation, whatever the other query
\* parameters are, and every case with text gets status dryrun-ok.
C8_DryRunMakesNoCallNoWrite ==
  req.dryRun =>
     /\ modelCalls = {}
     /\ blobWrites = {}
     /\ \A c \in CaseIds :
          (texts[c] = "text" /\ pc = "done") =>
             \E i \in 1..Len(processed) : processed[i] = Entry(c, "dryrun-ok")

\* C9: in the image pipeline a case whose aggregated text is empty or
\* whitespace only gets status no-text (batch mode), exactly once, and no
\* model call and no blob write is made for it.
C9_EmptyTextImageNoCallNoWrite ==
  \A c \in CaseIds :
    texts[c] = "empty" =>
       /\ \A m \in modelCalls : m.caseId # c
       /\ \A w \in blobWrites : w.caseId # c
       /\ Mode = "batch" =>
            /\ EntriesOf(c) = 1
            /\ \E i \in 1..Len(processed) : processed[i] = Entry(c, "no-text")

\* A case without text got no-text, and nothing was called or written for
\* it, in an invocation that generated and stored the next case.
C9_Witness ==
  /\ BatchResponded /\ ~req.dryRun
  /\ processed = << Entry(1, "no-text"), Entry(2, "done") >>
  /\ \E m \in modelCalls : m.caseId = 2
  /\ \E w \in blobWrites : w.caseId = 2

\* C10 as stated: in the instructions pipeline (dryRun off) a case with
\* empty text gets status no-text and processing it causes no model call and
\* no blob write, also when the case fills a bundle.
C10_EmptyTextInstrNoCallNoWrite ==
  \A c \in CaseIds :
    (texts[c] = "empty" /\ ~req.dryRun) =>
       /\ \E i \in 1..Len(processed) : processed[i] = Entry(c, "no-text")
       /\ \A m \in modelCalls : m.caseId # c
       /\ \A w \in blobWrites : w.caseId # c

\* C10 amended: such a case gets a no-text entry and no model call is made
\* for it; the only blob written while it is processed is the bundle that
\* the case completes, whose range ends at the case.
C10_EmptyTextInstrOnlyBundleWrite ==
  \A c \in CaseIds :
    (texts[c] = "empty" /\ ~req.dryRun) =>
       /\ \E i \in 1..Len(processed) : processed[i] = Entry(c, "no-text")
       /\ \A m \in modelCalls : m.caseId # c
       /\ \A w \in blobWrites :
            w.caseId = c =>
               \E s \in CaseIds : s <= c /\ w.path = BundlePath(s, c)

\* A no-text case filled a bundle of two, which was written while the case
\* was being processed.
C10_Witness ==
  /\ ~req.dryRun /\ BundleSize = 2
  /\ texts[1] = "text" /\ texts[2] = "empty"
  /\ [path |-> BundlePath(1, 2), caseId |-> 2] \in blobWrites
  /\ processed = << Entry(1, "done"), Entry(2, "no-text") >>


\* ------------------------------------------------ functions on their own
\* No handler runs: the handlers' state stays as constructed.
IdleProgram ==
  /\ req = NoRequest
  /\ pc = "idle"
  /\ err = NoErr
  /\ modelCalls = {}
  /\ blobs = EmptyStore
  /\ IdleHandler
  /\ IdleInstr
  /\ IdleLoop

\* --------------------------- uploadPng, uploadJson, uploadBundleJson alone
\* A call of one of the three upload functions: the path it computes from
\* its arguments, the overwrite flag, and what the store holds at the path
\* when the call starts.
UploadCalls ==
  { [name |-> "uploadPng", path |-> PngPath(c), overwrite |-> o,
     content |-> k] : c \in CaseIds, o \in BOOLEAN, k \in {"none", "old"} }
  \cup
  { [name |-> "uploadJson", path |-> JsonPath(c), overwrite |-> o,
     content |-> k] : c \in CaseIds, o \in BOOLEAN, k \in {"none", "old"} }
  \cup
  { [name |-> "uploadBundleJson", path |-> BundlePath(c, d), overwrite |-> o,
     content |-> k] :
       c \in CaseIds, d \in CaseIds, o \in BOOLEAN, k \in {"none", "old"} }

\* The remote operations one upload makes, in order: head (blobExists) and
\* then head again (the url of the existing blob) or put, unless overwrite,
\* where put is the only one.
UploadOps(content, overwrite, head1Ok) ==
  IF overwrite
  THEN << "put" >>
  ELSE IF blobExists(content, head1Ok)
       THEN << "head", "head" >>
       ELSE << "head", "put" >>

\* The whole call: the store holds call.content at call.path; each remote
\* operation answers or fails. A returned url names the path.
UploadCall ==
  /\ callPc = "called"
  /\ call.name \in {"uploadPng", "uploadJson", "uploadBundleJson"}
  /\ \E h1 \in BOOLEAN, h2 \in BOOLEAN, putOk \in BOOLEAN :
       LET u == Upload([EmptyStore EXCEPT ![call.path] = call.content],
                       call.path, call.overwrite, call.content, h1, h2, putOk)
       IN  /\ callLog' = UploadOps(call.content, call.overwrite, h1)
           /\ callResult' =
                IF u.threw
                THEN [kind |-> "threw", url |-> call.path,
                      content |-> u.store[call.path]]
                ELSE [kind |-> "returned", url |-> call.path,
                      content |-> u.store[call.path]]
  /\ callPc' = "done"
  /\ UNCHANGED << call, callLocals, pc, err, modelCalls, loopVars,
                  handlerVars, instrVars >>

InitUpload ==
  /\ IdleProgram
  /\ call \in UploadCalls
  /\ callPc = "called"
  /\ callLocals = NoLocals
  /\ callLog = <<>>
  /\ callResult = NoResult

NextUpload == UploadCall

SpecUpload == InitUpload /\ [][NextUpload]_vars

\* An upload call has finished.
UploadDone == callPc = "done" /\ call \in UploadCalls

PutInvoked == \E i \in 1..Len(callLog) : callLog[i] = "put"

\* C11: with overwrite=0 and a blob already at the target path, put is not
\* invoked for the path, the stored content is unchanged and the url of the
\* existing artifact is returned; with overwrite=1 put is invoked and no
\* existence check (head) is made.
C11_ExistingBlobIsKeptUnlessOverwrite ==
  UploadDone =>
     /\ (~call.overwrite /\ call.content = "old") =>
           /\ ~PutInvoked
           /\ callResult.content = "old"
           /\ callResult.kind = "returned"
     /\ call.overwrite =>
           /\ PutInvoked
           /\ \A i \in 1..Len(callLog) : callLog[i] # "head"


\* ------------------------------------------------------ claims: bundling
\* The instructions handler has answered an authorised request that did not
\* take the debug return.
InstrAnswered == pc = "done" /\ req.secret = "good" /\ response.kind # "debug"

\* How many items of uploaded (or dry-run) bundles are about case c.
BundledItemsOf(c) ==
  Cardinality({ bi \in (1..Len(bundles)) \X (1..Len(processed)) :
                  /\ bi[2] <= Len(bundles[bi[1]].items)
                  /\ bundles[bi[1]].items[bi[2]].caseId = c })

\* C12: when the instructions handler answers (no debug), the accumulator is
\* empty, the item of every attempted case is in exactly one bundle, every
\* bundle holds between 1 and bundleSize items and only the last bundle may
\* hold fewer than bundleSize.
C12_BundlesPartitionAttemptedCases ==
  InstrAnswered =>
     /\ currentItems = <<>>
     /\ \A c \in CaseIds : Attempted(c) => BundledItemsOf(c) = 1
     /\ \A b \in 1..Len(bundles) :
          /\ Len(bundles[b].items) >= 1
          /\ Len(bundles[b].items) <= BundleSize
          /\ b < Len(bundles) => Len(bundles[b].items) = BundleSize


\* ------------------------------------------------------- withRetry alone
\* async function withRetry<T>(fn, tries = 3)
DefaultTries == 3

\* await sleep(800 * (i + 1));
BackoffMs == 800

\* What fn() may throw: an error with a status, a statusCode, both or
\* neither (0 stands for an absent field); at tells the errors of different
\* invocations apart.
ThrownErrors(n) ==
  { [status |-> s, statusCode |-> c, at |-> n] :
      s \in {0, 400, 429, 500}, c \in {0, 503} }

\* const status = e?.status || e?.statusCode;
ErrorStatus(e) == IF e.status # 0 THEN e.status ELSE e.statusCode

\* return status === 429 || (status != null && status >= 500);
isRetryableStatus(status) == status = 429 \/ (status # 0 /\ status >= 500)

\* let lastErr: any;  (undefined until the first catch)
NoLastErr == [status |-> 0, statusCode |-> 0, at |-> 0]

\* Entries of callLog: an invocation of fn that returned, one that threw e,
\* and a sleep of ms milliseconds after invocation n.
FnReturned(n) ==
  [op |-> "fn", at |-> n, threw |-> FALSE, err |-> NoLastErr, ms |-> 0]
FnThrew(n, e) == [op |-> "fn", at |-> n, threw |-> TRUE, err |-> e, ms |-> 0]
Slept(n, ms) ==
  [op |-> "sleep", at |-> n, threw |-> FALSE, err |-> NoLastErr, ms |-> ms]

RetryBreaks_NoLastCheck(e, i, tries) == ~isRetryableStatus(ErrorStatus(e))

\* if (!isRetryableStatus(status) || i === tries - 1) break;
RetryBreaks(e, i, tries) ==
  ~isRetryableStatus(ErrorStatus(e)) \/ i = tries - 1

\* One iteration of the loop up to the sleep: try { return await fn(); }
\* catch (e) { lastErr = e; ...; if (...) break; }  and, after a break,
\* throw lastErr.
RetryInvoke ==
  /\ call.name = "withRetry" /\ callPc = "try"
  /\ callLocals.i < call.tries
  /\ LET n == callLocals.i + 1 IN
       \/ /\ callLog' = Append(callLog, FnReturned(n))
          /\ callResult' = [kind |-> "returned", err |-> NoLastErr]
          /\ callPc' = "done"
          /\ UNCHANGED callLocals
       \/ \E e \in ThrownErrors(n) :
            /\ callLog' = Append(callLog, FnThrew(n, e))
            /\ callLocals' = [callLocals EXCEPT !.lastErr = e]
            /\ IF RetryBreaks(e, callLocals.i, call.tries)
               THEN /\ callResult' = [kind |-> "threw", err |-> e]
                    /\ callPc' = "done"
               ELSE /\ callPc' = "sleep"
                    /\ UNCHANGED callResult
  /\ UNCHANGED << call, pc, err, modelCalls, loopVars, handlerVars, instrVars >>

\* await sleep(800 * (i + 1)); then i++ and the loop test i < tries; when the
\* test fails the function ends with throw lastErr.
RetrySleep ==
  /\ call.name = "withRetry" /\ callPc = "sleep"
  /\ callLog' = Append(callLog, Slept(callLocals.i + 1,
                                      BackoffMs * (callLocals.i + 1)))
  /\ callLocals' = [callLocals EXCEPT !.i = callLocals.i + 1]
  /\ IF callLocals.i + 1 < call.tries
     THEN callPc' = "try" /\ UNCHANGED callResult
     ELSE /\ callPc' = "done"
          /\ callResult' = [kind |-> "threw", err |-> callLocals.lastErr]
  /\ UNCHANGED << call, pc, err, modelCalls, loopVars, handlerVars, instrVars >>

\* withRetry(fn, tries) called with any tries from 1 to the default.
InitRetry ==
  /\ IdleProgram
  /\ call \in { [name |-> "withRetry", tries |-> t] : t \in 1..DefaultTries }
  /\ callPc = "try"
  /\ callLocals = [i |-> 0, lastErr |-> NoLastErr]
  /\ callLog = <<>>
  /\ callResult = NoResult

NextRetry == RetryInvoke \/ RetrySleep

SpecRetry == InitRetry /\ [][NextRetry]_vars


\* ------------------------------- withRetry of the legacy handler, alone
\* try { return await fn(); }
\* catch (e) { lastErr = e; await sleep(800 * (i + 1)); }
\* The status of the error is not looked at.
LegacyInvoke ==
  /\ call.name = "withRetryLegacy" /\ callPc = "try"
  /\ callLocals.i < call.tries
  /\ LET n == callLocals.i + 1 IN
       \/ /\ callLog' = Append(callLog, FnReturned(n))
          /\ callResult' = [kind |-> "returned", err |-> NoLastErr]
          /\ callPc' = "done"
          /\ UNCHANGED callLocals
       \/ \E e \in ThrownErrors(n) :
            /\ callLog' = Append(callLog, FnThrew(n, e))
            /\ callLocals' = [callLocals EXCEPT !.lastErr = e]
            /\ callPc' = "sleep"
            /\ UNCHANGED callResult
  /\ UNCHANGED << call, pc, err, modelCalls, loopVars, handlerVars, instrVars >>

\* The sleep inside the catch, then i++ and the loop test; after the last
\* iteration: throw lastErr.
LegacySleep ==
  /\ call.name = "withRetryLegacy" /\ callPc = "sleep"
  /\ callLog' = Append(callLog, Slept(callLocals.i + 1,
                                      BackoffMs * (callLocals.i + 1)))
  /\ callLocals' = [callLocals EXCEPT !.i = callLocals.i + 1]
  /\ IF callLocals.i + 1 < call.tries
     THEN callPc' = "try" /\ UNCHANGED callResult
     ELSE /\ callPc' = "done"
          /\ callResult' = [kind |-> "threw", err |-> callLocals.lastErr]
  /\ UNCHANGED << call, pc, err, modelCalls, loopVars, handlerVars, instrVars >>

InitRetryLegacy ==
  /\ IdleProgram
  /\ call \in { [name |-> "withRetryLegacy", tries |-> t] :
                  t \in 1..DefaultTries }
  /\ callPc = "try"
  /\ callLocals = [i |-> 0, lastErr |-> NoLastErr]
  /\ callLog = <<>>
  /\ callResult = NoResult

NextRetryLegacy == LegacyInvoke \/ LegacySleep

SpecRetryLegacy == InitRetryLegacy /\ [][NextRetryLegacy]_vars

\* ------------------------------------------------- claims: withRetry
\* Entry k of the log is an invocation of fn that threw.
FailedAt(k) == callLog[k].op = "fn" /\ callLog[k].threw

\* The positions of the log that are invocations of fn.
Invocations == { k \in 1..Len(callLog) : callLog[k].op = "fn" }

\* C13: a failure whose status is neither 429 nor >= 500, or that has no
\* status, ends the call: nothing follows it, neither another invocation nor
\* a backoff sleep, and that very error is what the call throws.
C13_RetryOnlyOnRetryableStatus ==
  \A k \in 1..Len(callLog) :
    (FailedAt(k) /\ ~isRetryableStatus(ErrorStatus(callLog[k].err))) =>
       /\ k = Len(callLog)
       /\ callPc = "done"
       /\ callResult = [kind |-> "threw", err |-> callLog[k].err]

\* C14: fn is invoked at most tries times; an invocation that returns ends
\* the call with a result; a call that throws throws the error of the last
\* invocation, which is the last thing it did (no sleep after it); every
\* sleep follows failed invocation n, lasts 800 * n ms and is followed by
\* the next invocation.
C14_AtMostTriesLastErrorLinearBackoff ==
  /\ Cardinality(Invocations) <= call.tries
  /\ \A k \in 1..Len(callLog) :
       /\ (callLog[k].op = "fn" /\ ~callLog[k].threw) =>
             /\ k = Len(callLog)
             /\ callPc = "done" /\ callResult.kind = "returned"
       /\ callLog[k].op = "sleep" =>
             /\ k > 1 /\ FailedAt(k - 1)
             /\ callLog[k].ms = BackoffMs * callLog[k - 1].at
             /\ callPc = "done" => k < Len(callLog)
             /\ k < Len(callLog) =>
                  /\ callLog[k + 1].op = "fn"
                  /\ callLog[k + 1].at = callLog[k].at + 1
  /\ (callPc = "done" /\ callResult.kind = "threw") =>
       /\ callLog # <<>>
       /\ FailedAt(Len(callLog))
       /\ callResult.err = callLog[Len(callLog)].err

\* Three invocations failed with a retryable status: the call slept 800 and
\* 1600 ms and threw the third error.
C14_Witness ==
  /\ call = [name |-> "withRetry", tries |-> DefaultTries]
  /\ callPc = "done" /\ callResult.kind = "threw"
  /\ callResult.err.at = DefaultTries
  /\ Len(callLog) = 5
  /\ callLog[2].ms = 800 /\ callLog[4].ms = 1600
  /\ \A k \in {1, 3, 5} : isRetryableStatus(ErrorStatus(callLog[k].err))


\* ------------------------------------------ makeProfile: the parsed fields
\* const s = String(raw || "").toLowerCase(); then the first keyword that s
\* includes decides. "null" stands for the null that normalizeBuild returns.
normalizeBuild_DefaultAverage(raw) ==
  LET s == toLowerCase(raw) IN
    IF includes(s, <<"s","l","i","m">>) THEN "slim"
    ELSE IF includes(s, <<"s","t","o","c","k","y">>) THEN "stocky"
    ELSE "average"

normalizeBuild(raw) ==
  LET s == toLowerCase(raw) IN
    IF includes(s, <<"s","l","i","m">>) THEN "slim"
    ELSE IF includes(s, <<"s","t","o","c","k","y">>) THEN "stocky"
    ELSE IF includes(s, <<"a","v","e","r","a","g","e">>) THEN "average"
    ELSE "null"

normalizeSocio(raw) ==
  LET s == toLowerCase(raw) IN
    IF includes(s, <<"h","o","m","e","l","e","s","s">>) THEN "homeless"
    ELSE IF includes(s, <<"s","t","r","u","g","g","l","i","n","g">>) THEN "struggling"
    ELSE IF includes(s, <<"a","f","f","l","u","e","n","t">>) THEN "affluent"
    ELSE IF includes(s, <<"a","v","e","r","a","g","e">>) THEN "average"
    ELSE "unknown"

normalizeGlam(raw) ==
  LET s == toLowerCase(raw) IN
    IF includes(s, <<"h","i","g","h">>) THEN "high"
    ELSE IF includes(s, <<"l","o","w">>) THEN "low"
    ELSE "medium"

normalizeRetouching(raw) ==
  LET s == toLowerCase(raw) IN
    IF includes(s, <<"l","i","g","h","t">>) THEN "light" ELSE "none"

normalizeSkinTone(raw) ==
  LET s == toLowerCase(raw) IN
    IF includes(s, <<"v","e","r","y","_","d","a","r","k">>) THEN "very_dark"
    ELSE IF includes(s, <<"d","a","r","k">>) THEN "dark"
    ELSE IF includes(s, <<"m","e","d","i","u","m">>) THEN "medium"
    ELSE IF includes(s, <<"v","e","r","y","_","l","i","g","h","t">>) THEN "very_light"
    ELSE IF includes(s, <<"l","i","g","h","t">>) THEN "light"
    ELSE "unspecified"

normalizeHairTexture(raw) ==
  LET s == toLowerCase(raw) IN
    IF includes(s, <<"c","o","i","l","y">>) THEN "coily"
    ELSE IF includes(s, <<"c","u","r","l","y">>) THEN "curly"
    ELSE IF includes(s, <<"w","a","v","y">>) THEN "wavy"
    ELSE IF includes(s, <<"s","t","r","a","i","g","h","t">>) THEN "straight"
    ELSE "unspecified"

\* Raw values the profile model may give for each field; <<>> stands for
\* null, an empty string or any other falsy value.
RawGenders == { <<"F","e","m","a","l","e","-","p","r","e","s","e","n","t","i","n","g">>, <<"m","a","l","e">>, <<"n","o","n","-","b","i","n","a","r","y">>, <<>> }
RawBuilds == { <<"S","l","i","m">>, <<"a","v","e","r","a","g","e"," ","b","u","i","l","d">>, <<"a","t","h","l","e","t","i","c">> }
RawSocios == { <<"A","f","f","l","u","e","n","t">>, <<"w","e","a","l","t","h","y">> }
RawGlams == { <<"l","o","w">>, <<"g","l","a","m","o","r","o","u","s">> }
RawRetouchings == { <<"l","i","g","h","t">>, <<"h","e","a","v","y">> }
RawSkinTones == { <<"v","e","r","y","_","l","i","g","h","t">>, <<"o","l","i","v","e">> }
RawHairTextures == { <<"W","a","v","y">>, <<"f","r","i","z","z","y">> }

\* Values the model may give for the two fields it is told to leave at
\* "auto".
RawSystemOwned == { "auto", "red" }

\* The object JSON.parse gave, or why there is none: the answer holds no
\* {...} ("noJson"), or a required key is absent ("missingKey").
ParsedProfiles ==
  { [kind |-> k, gender_presentation |-> <<>>, build |-> <<>>,
     socioeconomic |-> <<>>, glam_level |-> <<>>, retouching |-> <<>>,
     skin_tone |-> <<>>, hair_texture |-> <<>>, clothing_color |-> "auto",
     background |-> "auto"] : k \in {"noJson", "missingKey"} }
  \cup
  [kind : {"json"}, gender_presentation : RawGenders, build : RawBuilds,
   socioeconomic : RawSocios, glam_level : RawGlams,
   retouching : RawRetouchings, skin_tone : RawSkinTones,
   hair_texture : RawHairTextures, clothing_color : RawSystemOwned,
   background : RawSystemOwned]

NoFields ==
  [gender_presentation |-> "null", build |-> "null", socioeconomic |-> "null",
   glam_level |-> "null", retouching |-> "null", skin_tone |-> "null",
   hair_texture |-> "null", clothing_color |-> "null", background |-> "null"]

SystemOwned_KeepsRaw(raw) == raw

\* parsed.clothing_color = "auto"; parsed.background = "auto";
SystemOwned(raw) == "auto"

\* makeProfile from the parsed object on: required keys, gender and build
\* (which throw when they cannot be normalised), the other normalisers, the
\* two system-owned fields.
makeProfileFromParsed(parsed) ==
  CASE parsed.kind = "noJson" ->
         [threw |-> TRUE, msg |-> "PROFILE_JSON_PARSE_FAILED", fields |-> NoFields]
    [] parsed.kind = "missingKey" ->
         [threw |-> TRUE, msg |-> "PROFILE_JSON_MISSING_KEY", fields |-> NoFields]
    [] normalizeGender(parsed.gender_presentation) = "null" ->
         [threw |-> TRUE, msg |-> "PROFILE_JSON_BAD_GENDER", fields |-> NoFields]
    [] /\ normalizeGender(parsed.gender_presentation) # "null"
       /\ normalizeBuild(parsed.build) = "null" ->
         [threw |-> TRUE, msg |-> "PROFILE_JSON_BAD_BUILD", fields |-> NoFields]
    [] OTHER ->
         [threw |-> FALSE, msg |-> "none",
          fields |->
            [gender_presentation |-> normalizeGender(parsed.gender_presentation),
             build |-> normalizeBuild(parsed.build),
             socioeconomic |-> normalizeSocio(parsed.socioeconomic),
             glam_level |-> normalizeGlam(parsed.glam_level),
             retouching |-> normalizeRetouching(parsed.retouching),
             skin_tone |-> normalizeSkinTone(parsed.skin_tone),
             hair_texture |-> normalizeHairTexture(parsed.hair_texture),
             clothing_color |-> SystemOwned(parsed.clothing_color),
             background |-> SystemOwned(parsed.background)]]


\* ------------------------------- background and clothing colour palettes
BACKGROUNDS ==
  << "very light neutral grey (#f7f7f7) seamless studio background with a subtle gradient",
     "very light neutral grey (#f6f6f6) paper sweep background, evenly lit",
     "very pale grey (#f8f8f8) soft vignette, still very light",
     "off-white grey (#fafafa) seamless background, no color tint" >>

CLOTHING_COLORS ==
  << "navy", "cobalt blue", "royal blue", "deep teal", "forest green",
     "emerald green", "burgundy", "plum", "black", "white", "cream",
     "soft pastel blue", "soft pastel green", "soft lavender" >>

\* Largest seed tried. seedFromText gives the first 32 bits of a SHA-256
\* digest; only its remainders modulo the palette lengths are used.
MaxSeed == 27

Seeds == 0..MaxSeed

\* return arr[seed % arr.length];  (arrays of the model start at 1)
pick(arr, seed) == arr[(seed % Len(arr)) + 1]

\* A clash rule that never replaces the colour.
ensureNoBackgroundClothingClash_Never(clothingColor, background) ==
  clothingColor

\* (c.includes("white") || c.includes("cream")) &&
\* (b.includes("off-white") || b.includes("#fafafa")) ? "navy" : clothingColor
\* Of the palette entries only "white" and "cream" include one of the two
\* colour words, and only the fourth background includes "off-white" or
\* "#fafafa".
ensureNoBackgroundClothingClash(clothingColor, background) ==
  IF clothingColor \in {"white", "cream"} /\ background = BACKGROUNDS[4]
  THEN "navy"
  ELSE clothingColor

\* ------------------------ makeProfile and the handler's palette step alone
ProfileCalls ==
  { [name |-> "makeProfile", parsed |-> p, seed |-> sd] :
      p \in ParsedProfiles, sd \in Seeds }

\* makeProfile returns the validated object or throws.
ProfileValidate ==
  /\ call.name = "makeProfile" /\ callPc = "called"
  /\ LET r == makeProfileFromParsed(call.parsed) IN
       /\ callResult' = [kind |-> IF r.threw THEN "threw" ELSE "returned",
                         msg |-> r.msg, profile |-> r.fields]
       /\ callPc' = IF r.threw THEN "done" ELSE "validated"
  /\ UNCHANGED << call, callLocals, callLog, pc, err, modelCalls, loopVars,
                  handlerVars, instrVars >>

\* handler, batch mode:
\*   const background = pick(BACKGROUNDS, seed);
\*   let clothingColor = pick(CLOTHING_COLORS, seed + 17);
\*   clothingColor = ensureNoBackgroundClothingClash(clothingColor, background);
\*   profile.background = background; profile.clothing_color = clothingColor;
ProfileResolve ==
  /\ call.name = "makeProfile" /\ callPc = "validated"
  /\ LET background == pick(BACKGROUNDS, call.seed)
         clothingColor ==
           ensureNoBackgroundClothingClash(pick(CLOTHING_COLORS, call.seed + 17),
                                           background)
     IN  callResult' = [callResult EXCEPT !.profile.background = background,
                                          !.profile.clothing_color = clothingColor]
  /\ callPc' = "resolved"
  /\ UNCHANGED << call, callLocals, callLog, pc, err, modelCalls, loopVars,
                  handlerVars, instrVars >>

InitProfile ==
  /\ IdleProgram
  /\ call \in ProfileCalls
  /\ callPc = "called"
  /\ callLocals = NoLocals
  /\ callLog = <<>>
  /\ callResult = NoResult

NextProfile == ProfileValidate \/ ProfileResolve

SpecProfile == InitProfile /\ [][NextProfile]_vars

\* ---------------------------------------------------- claims: makeProfile
\* makeProfile has returned a profile that the handler has not touched yet.
ProfileEmitted == call.name = "makeProfile" /\ callPc = "validated"

\* The handler has assigned background and clothing colour.
ProfileResolved == call.name = "makeProfile" /\ callPc = "resolved"

\* C15 as stated: in every profile that makeProfile returns, clothing_color
\* and background differ from the sentinel "auto".
C15_ExtractorNeverEmitsSentinel ==
  (ProfileEmitted \/ ProfileResolved) =>
     /\ callResult.profile.clothing_color # "auto"
     /\ callResult.profile.background # "auto"

\* C15 amended: every profile that makeProfile returns carries "auto" in
\* both fields whatever the model gave; once the batch handler has assigned
\* them, both are palette entries and neither is "auto".
C15_SentinelUntilHandlerResolves ==
  /\ ProfileEmitted =>
       /\ callResult.profile.clothing_color = "auto"
       /\ callResult.profile.background = "auto"
  /\ ProfileResolved =>
       /\ callResult.profile.clothing_color # "auto"
       /\ callResult.profile.background # "auto"
       /\ \E i \in 1..Len(CLOTHING_COLORS) :
            callResult.profile.clothing_color = CLOTHING_COLORS[i]
       /\ \E i \in 1..Len(BACKGROUNDS) :
            callResult.profile.background = BACKGROUNDS[i]

\* The model gave colours of its own for both fields; makeProfile returned
\* "auto" for both.
C15_Witness ==
  /\ ProfileEmitted
  /\ call.parsed.clothing_color = "red" /\ call.parsed.background = "red"
  /\ callResult.profile.clothing_color = "auto"
  /\ callResult.profile.background = "auto"


\* makeProfile has run on a parsed object that has every required key.
ProfileChecked ==
  call.name = "makeProfile" /\ callPc # "called" /\ call.parsed.kind = "json"

\* The raw values of the model that name no member of the closed set.
UnmappableGenders == { <<"n","o","n","-","b","i","n","a","r","y">>, <<>> }
UnmappableBuilds == { <<"a","t","h","l","e","t","i","c">> }

\* C16: a returned profile has gender_presentation and build in their closed
\* sets; a raw gender or build that maps to no member makes makeProfile
\* throw PROFILE_JSON_BAD_GENDER / PROFILE_JSON_BAD_BUILD; nothing else in
\* the parsed object makes it throw, and a raw socioeconomic, glam level,
\* retouching, skin tone or hair texture that maps to no member becomes the
\* default of its field (unknown, medium, none, unspecified, unspecified).
C16_GenderBuildHardGateOthersDefault ==
  ProfileChecked =>
    LET p == call.parsed
        f == callResult.profile
    IN  /\ callResult.kind = "returned" =>
             /\ f.gender_presentation \in {"female-presenting", "male-presenting"}
             /\ f.build \in {"slim", "average", "stocky"}
             /\ f.socioeconomic \in
                  {"affluent", "average", "struggling", "homeless", "unknown"}
             /\ f.glam_level \in {"low", "medium", "high"}
             /\ f.retouching \in {"none", "light"}
             /\ f.skin_tone \in {"very_light", "light", "medium", "dark",
                                 "very_dark", "unspecified"}
             /\ f.hair_texture \in {"straight", "wavy", "curly", "coily",
                                    "unspecified"}
             /\ p.socioeconomic = <<"w","e","a","l","t","h","y">> => f.socioeconomic = "unknown"
             /\ p.glam_level = <<"g","l","a","m","o","r","o","u","s">> => f.glam_level = "medium"
             /\ p.retouching = <<"h","e","a","v","y">> => f.retouching = "none"
             /\ p.skin_tone = <<"o","l","i","v","e">> => f.skin_tone = "unspecified"
             /\ p.hair_texture = <<"f","r","i","z","z","y">> => f.hair_texture = "unspecified"
        /\ p.gender_presentation \in UnmappableGenders =>
             (callResult.kind = "threw" /\ callResult.msg = "PROFILE_JSON_BAD_GENDER")
        /\ (p.gender_presentation \notin UnmappableGenders
              /\ p.build \in UnmappableBuilds) =>
             (callResult.kind = "threw" /\ callResult.msg = "PROFILE_JSON_BAD_BUILD")
        /\ callResult.kind = "threw" =>
             (p.gender_presentation \in UnmappableGenders
                \/ p.build \in UnmappableBuilds)

\* A profile was returned although none of the five other enum fields could
\* be mapped: each holds its default.
C16_Witness ==
  /\ ProfileEmitted
  /\ call.parsed.socioeconomic = <<"w","e","a","l","t","h","y">>
  /\ call.parsed.glam_level = <<"g","l","a","m","o","r","o","u","s">>
  /\ call.parsed.retouching = <<"h","e","a","v","y">>
  /\ call.parsed.skin_tone = <<"o","l","i","v","e">>
  /\ call.parsed.hair_texture = <<"f","r","i","z","z","y">>
  /\ callResult.profile.socioeconomic = "unknown"
  /\ callResult.profile.glam_level = "medium"
  /\ callResult.profile.retouching = "none"
  /\ callResult.profile.skin_tone = "unspecified"
  /\ callResult.profile.hair_texture = "unspecified"
  /\ callResult.profile.gender_presentation = "male-presenting"
  /\ callResult.profile.build = "average"


\* ---------------------------------------------------- claims: composition
\* The rows of the scanPair response.
ScanRows ==
  { scan.pair[i] : i \in 1..Len(scan.pair) }
    \cup { scan.single[i] : i \in 1..Len(scan.single) }

\* C17: wherever the handler uses or reports a composition (the profile
\* that goes into the prompt, the debug response and the stored document,
\* and the rows of scanPair), an age below 6 comes with composition "pair"
\* and a companion that is not null.
C17_YoungChildIsPairWithCompanion ==
  /\ (profile.composition # "unset" /\ IsYoungChild(profile.age)) =>
       (profile.composition = "pair" /\ profile.companion # NoCompanion)
  /\ \A row \in ScanRows :
       IsYoungChild(row.age) =>
          (row.composition = "pair" /\ row.companion # NoCompanion)


\* C19: the composition stage never makes a case fail: whatever text the
\* model returns for the composition call, unparseable text included, no
\* exception of this stage is in flight (unparseable output would give
\* composition "single" and confidence "low" instead).
C19_CompositionStageNeverFailsCase ==
  err.message # "COMPOSITION_JSON_PARSE_FAILED"

\* ------------------------------------------------ decideComposition alone
CompositionCalls ==
  { [name |-> "decideComposition", resp |-> r, age |-> a] :
      r \in CompositionResponses, a \in AgeStrings }

\* decideComposition returns the normalised decision or throws.
ComposeDecide ==
  /\ call.name = "decideComposition" /\ callPc = "called"
  /\ LET d == decideComposition(call.resp) IN
       callResult' = [kind |-> IF d.threw THEN "threw" ELSE "returned",
                      msg |-> d.msg, composition |-> d.composition,
                      confidence |-> d.confidence, companion |-> d.companion]
  /\ callPc' = "done"
  /\ UNCHANGED << call, callLocals, callLog, pc, err, modelCalls, loopVars,
                  handlerVars, instrVars >>

InitCompose ==
  /\ IdleProgram
  /\ call \in CompositionCalls
  /\ callPc = "called"
  /\ callLocals = NoLocals
  /\ callLog = <<>>
  /\ callResult = NoResult

NextCompose == ComposeDecide

SpecCompose == InitCompose /\ [][NextCompose]_vars

\* decideComposition has returned a decision.
Decided ==
  call.name = "decideComposition" /\ callPc = "done"
    /\ callResult.kind = "returned"

\* C18: a decision that decideComposition returns is "pair" with a companion
\* that is not null and whose gender_presentation is in the closed set (the
\* default companion when the model gave none or no object), or "single"
\* with companion null.
C18_PairHasCompanionSingleHasNone ==
  Decided =>
     /\ callResult.composition \in {"single", "pair"}
     /\ callResult.composition = "pair" =>
          /\ callResult.companion # NoCompanion
          /\ callResult.companion.gender_presentation \in
               {"female-presenting", "male-presenting"}
          /\ call.resp.companion.kind # "object" =>
               callResult.companion = DefaultCompanion
     /\ callResult.composition = "single" => callResult.companion = NoCompanion

\* The model answered "pair" without a companion: the default companion
\* was put in.
C18_Witness ==
  /\ Decided
  /\ call.resp.composition = "pair" /\ call.resp.companion.kind = "null"
  /\ callResult.composition = "pair"
  /\ callResult.companion = DefaultCompanion


\* ------------------------------------------------------ validateCues alone
\* More cues a model may write: a digit inside a word, lower case without
\* a full stop, no "If" at the start.
CueDigitInWord == <<"I","f"," ","B","1","2",","," ","t","h","e","n"," ","a",".">>
CueLowerNoStop == <<"i","f"," ","a"," ","t","h","e","n"," ","b">>
CueNoIf == <<"S","a","y"," ","a",","," ","t","h","e","n"," ","b",".">>

CuePool ==
  { CueIfThen, CueNoThen, CueTwoSentences, CueNumber, CueDigitInWord,
    CueLowerNoStop, CueNoIf, <<" ">> }

\* Longest cue list tried.
MaxCues == 3

RECURSIVE CueLists(_)
CueLists(n) ==
  IF n = 0 THEN { <<>> }
  ELSE CueLists(n - 1)
         \cup { Append(l, c) : l \in { m \in CueLists(n - 1) : Len(m) = n - 1 },
                               c \in CuePool }

CuesCalls == { [name |-> "validateCues", cues |-> l] : l \in CueLists(MaxCues) }

\* const v = validateCues(cues);
CuesValidate ==
  /\ call.name = "validateCues" /\ callPc = "called"
  /\ callResult' = [kind |-> "returned", ok |-> validateCues(call.cues)]
  /\ callPc' = "done"
  /\ UNCHANGED << call, callLocals, callLog, pc, err, modelCalls, loopVars,
                  handlerVars, instrVars >>

InitCues ==
  /\ IdleProgram
  /\ call \in CuesCalls
  /\ callPc = "called"
  /\ callLocals = NoLocals
  /\ callLog = <<>>
  /\ callResult = NoResult

NextCues == CuesValidate

SpecCues == InitCues /\ [][NextCues]_vars

\* validateCues has accepted the list.
CuesAcceptedByValidate ==
  call.name = "validateCues" /\ callPc = "done" /\ callResult.ok

\* C20: every cue of a list that validateCues accepts is exactly one
\* sentence, begins with "If" (in any letter case), contains the word
\* "then" and contains no digit character.
C20_AcceptedCuesOneSentenceIfThenNoDigit ==
  CuesAcceptedByValidate =>
    \A k \in 1..Len(NonEmptyTrimmed(call.cues)) :
      LET c == NonEmptyTrimmed(call.cues)[k] IN
        /\ sentenceCount(c) = 1
        /\ startsWith(toLowerCase(c), <<"i","f">>)
        /\ HasWord(toLowerCase(c), <<"t","h","e","n">>)
        /\ \A i \in 1..Len(c) : ~IsDigit(c[i])

\* ------------------------------------------------ generateCuesPrioritised
CueStages == {"planCues", "composeCues", "repairCues"}

\* C21: generateCuesPrioritised runs plan -> compose -> (repair) at most 3
\* times; a repair call follows only a composed output that failed
\* validateCues, once per cycle; the first composed or repaired output that
\* passes validateCues is returned; after a third non-compliant cycle the last
\* repaired output, cut to at most 2 entries, is returned, so that validation
\* never fails the case: the stage throws only what llmJson throws.
C21_ThreeCyclesOneRepairBestEffortReturn ==
  [][ /\ cueAttempt' <= MaxAttempts
      /\ pc' = "composeCues" => pc = "planCues" /\ cueAttempt' = cueAttempt
      /\ pc' = "repairCues" =>
           /\ pc = "composeCues"
           /\ cueAttempt' = cueAttempt
           /\ ~validateCues(lastCues')
      /\ (pc = "composeCues" /\ pc' = "cuesReturned") => validateCues(lastCues')
      /\ (pc = "repairCues" /\ pc' = "cuesReturned") =>
           \/ validateCues(lastCues')
           \/ cueAttempt = MaxAttempts /\ Len(lastCues') <= 2
      /\ (pc = "repairCues" /\ pc' = "planCues") =>
           /\ ~validateCues(lastCues')
           /\ cueAttempt < MaxAttempts
           /\ cueAttempt' = cueAttempt + 1
      /\ (pc \in CueStages /\ pc' = "thrown") =>
           err'.message \in {"API_ERROR", "LLM_JSON_PARSE_FAILED"}
    ]_vars

\* The third cycle ended non-compliant and the cues were returned all the same.
C21_Witness ==
  /\ pc = "cuesReturned"
  /\ cueAttempt = MaxAttempts
  /\ ~validateCues(lastCues)
  /\ Len(lastCues) <= 2

\* ------------------------------------------ deterministic variety selector
DigitChars == <<"0", "1", "2", "3", "4", "5", "6", "7", "8", "9">>

\* `${caseId}` for a non-negative integer
RECURSIVE NumberText(_)
NumberText(n) ==
  IF n < 10 THEN <<DigitChars[n + 1]>>
  ELSE NumberText(n \div 10) \o <<DigitChars[(n % 10) + 1]>>

\* `${caseId}::${text}`, the bytes given to the hash
SeedInput(id, text) == NumberText(id) \o <<":", ":">> \o text

VarietyIds == {1, 2}
VarietyTexts == {<<"a">>, <<"b">>}
VarietyInputs == { SeedInput(id, t) : id \in VarietyIds, t \in VarietyTexts }

\* First 32-bit words of digests. SHA-256 is one fixed function of its input;
\* which one is left open: every function from the inputs to these words is
\* tried. 7 is the remainder class where the clash rule replaces the colour.
SeedSamples == {0, 3, 7}

\* Cases handled by one batch.
MaxVarietyCalls == 3

\* A seed that also counts the cases handled before.
seedFromText_CountsEarlierCases(id, text) ==
  call.sha[SeedInput(id, text)] + Len(callLog)

\* crypto.createHash("sha256").update(`${caseId}::${text}`).digest()
\*   .readUInt32BE(0)
seedFromText(id, text) == call.sha[SeedInput(id, text)]

VarietyCalls ==
  { [name |-> "variety", sha |-> f] : f \in [VarietyInputs -> SeedSamples] }

\* One case of the batch reaches the palette step: the profile holds what the
\* model answered (raw) after makeProfile, then
\*   const seed = seedFromText(caseId, caseText);
\*   const background = pick(BACKGROUNDS, seed);
\*   let clothingColor = pick(CLOTHING_COLORS, seed + 17);
\*   clothingColor = ensureNoBackgroundClothingClash(clothingColor, background);
\*   profile.background = background; profile.clothing_color = clothingColor;
VarietySelect ==
  /\ call.name = "variety"
  /\ Len(callLog) < MaxVarietyCalls
  /\ \E id \in VarietyIds, text \in VarietyTexts, raw \in RawSystemOwned :
       LET seed == seedFromText(id, text)
           background == pick(BACKGROUNDS, seed)
           clothingColor ==
             ensureNoBackgroundClothingClash(pick(CLOTHING_COLORS, seed + 17),
                                             background)
       IN  /\ callLog' = Append(callLog,
                 [caseId |-> id, caseText |-> text,
                  extracted |-> SystemOwned(raw), modelAnswer |-> raw,
                  seed |-> seed,
                  background |-> background,
                  clothing_color |-> clothingColor])
           /\ callResult' = [kind |-> "returned", msg |-> "none",
                             background |-> background,
                             clothing_color |-> clothingColor]
  /\ callPc' = "selected"
  /\ UNCHANGED << call, callLocals, pc, err, modelCalls, loopVars,
                  handlerVars, instrVars >>

InitVariety ==
  /\ IdleProgram
  /\ call \in VarietyCalls
  /\ callPc = "called"
  /\ callLocals = NoLocals
  /\ callLog = <<>>
  /\ callResult = NoResult

NextVariety == VarietySelect

SpecVariety == InitVariety /\ [][NextVariety]_vars

NothingDone ==
  /\ texts = [c \in CaseIds |-> "unread"]
  /\ modelCalls = {}
  /\ blobWrites = {}
  /\ blobs \in ImageStores \cup InstrStores
  /\ processed = <<>>
  /\ scan = NoScan
  /\ bundles = <<>>
  /\ currentItems = <<>>

\* C23: when the x-run-secret header is absent or differs from the configured
\* secret, the first step of the handler answers 401 with ok=false, and the
\* invocation reads no record, calls no model and performs no blob operation.
C23_BadSecretAnswers401BeforeAnyWork ==
  req.secret # "good" =>
    /\ NothingDone
    /\ pc \in {"start", "done"}
    /\ pc = "done" => response = [status |-> 401, ok |-> FALSE, kind |-> "error"]

\* A request without the header has been answered.
C23_Witness ==
  /\ req.secret = "none"
  /\ pc = "done"
  /\ response.status = 401 /\ ~response.ok
  /\ NothingDone

\* ------------------------------------------------- invocation-level answers
\* C24: once the secret has been accepted, the invocation answers 200 with
\* ok=true, however many cases failed; an answer other than 200 is given only
\* to a request whose secret was refused (or whose setup threw), and it
\* carries ok=false and the error.
C24_AuthorizedBatchAlwaysAnswers200 ==
  pc = "done" =>
    /\ req.secret = "good" => response.status = 200 /\ response.ok
    /\ response.status # 200 => ~response.ok /\ response.kind = "error"

\* ------------------------------------------------- visionYesNo on its own
\* Answers of the vision model: leading white space, a word, what follows it.
AnswerPads == {<<>>, <<" ">>, <<"\n", " ">>}
AnswerWords ==
  {<<"y","e","s">>, <<"Y","e","s">>, <<"Y","E","S">>, <<"y","E","s">>, <<"n","o">>, <<"N","o">>, <<"m","a","y","b","e">>, <<"y","e">>, <<"y"," ","e","s">>, <<"o","y","e","s">>,
   <<>>}
AnswerTails == {<<>>, <<".">>, <<" ">>, <<","," ","n","o">>, <<"t","e","r","d","a","y">>, <<" ","y","e","s">>}

VisionTexts ==
  { pad \o w \o tail : pad \in AnswerPads, w \in AnswerWords,
                       tail \in AnswerTails }

VisionCalls ==
  { [name |-> "visionYesNo", resp |-> r] :
      r \in { [kind |-> "error", text |-> <<>>],
              [kind |-> "null", text |-> <<>>] }
            \cup { [kind |-> "text", text |-> t] : t \in VisionTexts } }

\* visionYesNo / verifyGenderPresentation: what withRetry throws is thrown on;
\* otherwise the answer is turned into a boolean.
VisionAnswer ==
  /\ call.name = "visionYesNo" /\ callPc = "called"
  /\ callResult' =
       IF call.resp.kind = "error"
       THEN [kind |-> "threw", value |-> FALSE]
       ELSE [kind |-> "returned", value |-> visionYesNo(call.resp)]
  /\ callPc' = "done"
  /\ UNCHANGED << call, callLocals, callLog, pc, err, modelCalls, loopVars,
                  handlerVars, instrVars >>

InitVision ==
  /\ IdleProgram
  /\ call \in VisionCalls
  /\ callPc = "called"
  /\ callLocals = NoLocals
  /\ callLog = <<>>
  /\ callResult = NoResult

NextVision == VisionAnswer

SpecVision == InitVision /\ [][NextVision]_vars

\* The text has, after nothing but white space, the three letters y, e, s in
\* either case.
BeginsWithYes(t) ==
  \E k \in 1..Len(t) :
    /\ \A i \in 1..(k - 1) : t[i] \in {" ", "\n", "\t"}
    /\ k + 2 <= Len(t)
    /\ t[k] \in {"y", "Y"}
    /\ t[k + 1] \in {"e", "E"}
    /\ t[k + 2] \in {"s", "S"}

\* C25: visionYesNo returns true exactly when the answer text, white space
\* at its ends removed, begins with "yes" in any letter case; every other
\* answer ("no", "maybe", an empty text, no text at all, "yes" further on in
\* the text) gives false.
C25_TrueOnlyWhenAnswerBeginsWithYes ==
  (call.name = "visionYesNo" /\ callResult.kind = "returned") =>
    (callResult.value <=>
       (call.resp.kind = "text" /\ BeginsWithYes(call.resp.text)))

\* An answer that holds "yes", but not at its start, gave false.
C25_Witness ==
  /\ call.name = "visionYesNo" /\ callResult.kind = "returned"
  /\ call.resp.text = <<" ","n","o"," ","y","e","s">>
  /\ ~callResult.value

\* ------------------------------------------- profile without a required key
MissingKeyThrown ==
  /\ Mode = "batch"
  /\ pc = "thrown"
  /\ err.message = "PROFILE_JSON_MISSING_KEY"

\* C26: when the profile extraction of a case returns JSON without a required
\* key, the case fails with PROFILE_JSON_MISSING_KEY: no image or vision call
\* and no blob write has been made for it, the next step records the case
\* with status error and moves to the next case without calling the model
\* again, and no later step calls a model or writes a blob for an earlier
\* case.
C26_MissingKeyFailsCaseOnceBatchGoesOn ==
  [][ /\ MissingKeyThrown =>
           /\ \A m \in modelCalls : m.caseId = caseId => m = TextCall
           /\ \A w \in blobWrites : w.caseId # caseId
           /\ processed' = Append(processed, Entry(caseId, "error"))
           /\ caseId' = caseId + 1
           /\ pc' = "loop"
           /\ modelCalls' = modelCalls
           /\ blobWrites' = blobWrites
      /\ Mode = "batch" =>
           /\ caseId' >= caseId
           /\ \A m \in modelCalls' \ modelCalls : m.caseId = caseId
           /\ \A w \in blobWrites' \ blobWrites : w.caseId = caseId
    ]_vars

\* The extraction of the first case of a batch of two has just thrown for a
\* missing key, after its one model call.
C26_Witness ==
  /\ MissingKeyThrown
  /\ caseId = 1 /\ req.limit = 2 /\ ~req.dryRun
  /\ modelCalls = { [kind |-> "text", caseId |-> 1] }
  /\ blobWrites = {}
  /\ processed = <<>>

\* ------------------------------------- invocations uploading to one path
\* Invocations that run at the same time.
MaxInvocations == 2

\* Each invocation calls the same upload function for the same case; the
\* store holds call.content at the path when the first one starts.
RaceCalls ==
  { [name |-> "uploads", fn |-> f.fn, path |-> f.path, overwrite |-> o,
     content |-> k, invocations |-> n] :
      f \in { [fn |-> "uploadPng", path |-> PngPath(1)],
              [fn |-> "uploadJson", path |-> JsonPath(1)],
              [fn |-> "uploadBundleJson", path |-> BundlePath(1, 1)] },
      o \in BOOLEAN, k \in {"none", "old"}, n \in 1..MaxInvocations }

Invocation == 1..call.invocations

HeadEvent(p, headOk, exists) ==
  [inv |-> p, op |-> "head", ok |-> headOk, exists |-> exists]
PutEvent(p, putOk) ==
  [inv |-> p, op |-> "put", ok |-> putOk, exists |-> FALSE]

\* What every step of an invocation leaves alone; the call is over when every
\* invocation has returned or thrown.
RaceFrame ==
  /\ call.name = "uploads"
  /\ callPc' = IF \A p \in Invocation :
                    callLocals'.at[p] \in {"returned", "threw"}
               THEN "done" ELSE "running"
  /\ UNCHANGED << call, pc, err, modelCalls, loopVars, handlerVars,
                  instrVars >>

\* if (!overwrite) { const exists = await blobExists(pathname); ...
\* With overwrite the function goes to put at once.
RaceCheck ==
  \E p \in Invocation :
  /\ callLocals.at[p] = "start"
  /\ IF call.overwrite
     THEN /\ callLocals' = [callLocals EXCEPT !.at[p] = "put"]
          /\ UNCHANGED callLog
     ELSE \E headOk \in BOOLEAN :
            LET exists == blobExists(callResult.content, headOk) IN
              /\ callLocals' =
                   [callLocals EXCEPT !.at[p] = IF exists THEN "url" ELSE "put"]
              /\ callLog' = Append(callLog, HeadEvent(p, headOk, exists))
  /\ UNCHANGED callResult
  /\ RaceFrame

\* if (exists) return (await head(pathname)).url;
RaceUrl ==
  \E p \in Invocation :
  /\ callLocals.at[p] = "url"
  /\ \E headOk \in BOOLEAN :
       /\ callLog' = Append(callLog, HeadEvent(p, headOk, headOk))
       /\ callLocals' =
            [callLocals EXCEPT !.at[p] = IF headOk THEN "returned" ELSE "threw"]
  /\ UNCHANGED callResult
  /\ RaceFrame

\* const res = await put(pathname, bytes, {...}); return res.url;
RacePut ==
  \E p \in Invocation :
  /\ callLocals.at[p] = "put"
  /\ \E putOk \in BOOLEAN :
       /\ callLog' = Append(callLog, PutEvent(p, putOk))
       /\ callResult' = [callResult EXCEPT
                           !.content = IF putOk THEN "new" ELSE @]
       /\ callLocals' =
            [callLocals EXCEPT !.at[p] = IF putOk THEN "returned" ELSE "threw"]
  /\ RaceFrame

InitRace ==
  /\ IdleProgram
  /\ call \in RaceCalls
  /\ callPc = "called"
  /\ callLocals = [i |-> 0, at |-> [p \in Invocation |-> "start"]]
  /\ callLog = <<>>
  /\ callResult = [kind |-> "store", content |-> call.content]

NextRace == RaceCheck \/ RaceUrl \/ RacePut

SpecRace == InitRace /\ [][NextRace]_vars

\* Positions of the log where invocation p wrote the path.
WritesOf(p) ==
  { i \in 1..Len(callLog) :
      callLog[i].inv = p /\ callLog[i].op = "put" /\ callLog[i].ok }

\* Positions where invocation p asked the store and was told: no such blob.
SawAbsent(p) ==
  { i \in 1..Len(callLog) :
      /\ callLog[i].inv = p /\ callLog[i].op = "head"
      /\ callLog[i].ok /\ ~callLog[i].exists }

\* C27: one invocation writes a path at most once, so an invocation on its
\* own never writes it twice; with overwrite=0, a path that one invocation
\* wrote is written by another one that was told "absent" only when that
\* other one asked before the first one's write: the check and the write
\* are two steps, and the two invocations overlapped.
C27_DoubleWriteOnlyByOverlap ==
  call.name = "uploads" =>
    /\ \A p \in Invocation : Cardinality(WritesOf(p)) <= 1
    /\ call.invocations = 1 =>
         Cardinality({ i \in 1..Len(callLog) : callLog[i].op = "put" }) <= 1
    /\ ~call.overwrite =>
         \A p \in Invocation, q \in Invocation :
           \A w \in WritesOf(p), h \in SawAbsent(q), v \in WritesOf(q) :
             (p # q /\ w < v) => h < w

\* Two invocations with overwrite=0 both found the path absent and both
\* wrote it.
C27_Witness ==
  /\ call.name = "uploads" /\ ~call.overwrite /\ call.content = "none"
  /\ call.invocations = 2
  /\ callPc = "done"
  /\ \A p \in Invocation : WritesOf(p) # {} /\ SawAbsent(p) # {}

\* ------------------------------------------- synthesized default companion
\* One tier below: high -> medium, medium -> low; low is the lowest tier.
OneTierDown(confidence) ==
  CASE confidence = "high"   -> "medium"
    [] confidence = "medium" -> "low"
    [] OTHER                 -> "low"

\* The confidence of the model's answer once the enum default was applied.
AnsweredConfidence ==
  IF call.resp.confidence \in {"high", "medium", "low"}
  THEN call.resp.confidence ELSE "low"

\* C28: when the decision is "pair" and the model gave no companion object,
\* decideComposition puts in the default companion (guardian,
\* female-presenting) and returns the confidence one tier below the one the
\* model gave: high becomes medium, medium becomes low.
C28_DefaultCompanionLowersConfidenceOneTier ==
  (Decided /\ callResult.composition = "pair"
     /\ call.resp.companion.kind # "object") =>
       /\ callResult.companion = DefaultCompanion
       /\ callResult.confidence = OneTierDown(AnsweredConfidence)

\* ------------------------------------------------------ planCues on its own
\* String.prototype.slice(0, n)
SliceTo(s, n) == IF Len(s) > n THEN SubSeq(s, 1, n) ELSE s

\* Items the planning model may put in "plan". An item that is null, or has
\* no such key, reads as the empty text (x?.domain ?? "").
PlanItemRaw(d) == [domain |-> d, if_not_mentioned |-> <<"i","f"," ","x">>, then_say |-> <<"s","a","y"," ","y">>]
BlankItemRaw == [domain |-> <<" ">>, if_not_mentioned |-> <<"i","f"," ","x">>, then_say |-> <<"s","a","y"," ","y">>]
NullItemRaw == [domain |-> <<>>, if_not_mentioned |-> <<>>, then_say |-> <<>>]
LongItemRaw == [domain |-> [i \in 1..81 |-> "d"], if_not_mentioned |-> <<"i","f"," ","x">>, then_say |-> <<" ","s","a","y"," ","y"," ">>]

\* Longest plan the model writes.
MaxPlanItems == 7

PlanArrays ==
  { [i \in 1..n |-> PlanItemRaw(NumberText(i))] : n \in 0..MaxPlanItems }
    \cup { << BlankItemRaw, PlanItemRaw(<<"a">>) >>,
           << PlanItemRaw(<<"a">>), NullItemRaw, LongItemRaw >>,
           << NullItemRaw >> }

\* A JSON number n + 1/2 (half) or n.
JsonNumber(n, half) == [kind |-> "number", int |-> n, half |-> half]

\* Values the model may put in "selected_indexes": numbers, null, true, and
\* values that Number() turns into NaN (a word, an object, undefined).
IndexValues ==
  { JsonNumber(-1, FALSE), JsonNumber(0, FALSE), JsonNumber(1, FALSE),
    JsonNumber(6, FALSE), JsonNumber(1, TRUE),
    [kind |-> "null", int |-> 0, half |-> FALSE],
    [kind |-> "true", int |-> 0, half |-> FALSE],
    [kind |-> "word", int |-> 0, half |-> FALSE] }

\* Longest selected_indexes array the model writes.
MaxIndexes == 3

RECURSIVE IndexArrays(_)
IndexArrays(n) ==
  IF n = 0 THEN { <<>> }
  ELSE IndexArrays(n - 1)
         \cup { Append(a, v) : a \in { b \in IndexArrays(n - 1) : Len(b) = n - 1 },
                               v \in IndexValues }

\* Number(n): null is 0, true is 1, a number is itself, the rest is NaN.
ToNumber(v) ==
  CASE v.kind = "number" -> [finite |-> TRUE, int |-> v.int, half |-> v.half]
    [] v.kind = "null"   -> [finite |-> TRUE, int |-> 0, half |-> FALSE]
    [] v.kind = "true"   -> [finite |-> TRUE, int |-> 1, half |-> FALSE]
    [] OTHER             -> [finite |-> FALSE, int |-> 0, half |-> FALSE]

\* .map(x => ({ domain: String(x?.domain ?? "").trim().slice(0, 80), ... }))
PlanItem(x) ==
  [domain |-> SliceTo(trim(x.domain), 80),
   if_not_mentioned |-> SliceTo(trim(x.if_not_mentioned), 140),
   then_say |-> SliceTo(trim(x.then_say), 180)]

\* .filter(x => x.domain && x.if_not_mentioned && x.then_say)
RECURSIVE CompletePlanItems(_)
CompletePlanItems(arr) ==
  IF arr = <<>> THEN <<>>
  ELSE LET x == PlanItem(Head(arr)) IN
         IF x.domain # <<>> /\ x.if_not_mentioned # <<>> /\ x.then_say # <<>>
         THEN <<x>> \o CompletePlanItems(Tail(arr))
         ELSE CompletePlanItems(Tail(arr))

\* Number.isFinite(n) && n >= 0 && n < plan.length
IndexKept(n, planLength) == n.finite /\ n.int >= 0 /\ n.int < planLength

\* .map(n => Number(n)).filter(...)
RECURSIVE KeptIndexes(_, _)
KeptIndexes(idxArr, planLength) ==
  IF idxArr = <<>> THEN <<>>
  ELSE LET n == ToNumber(Head(idxArr)) IN
         IF IndexKept(n, planLength)
         THEN <<[int |-> n.int, half |-> n.half]>>
                \o KeptIndexes(Tail(idxArr), planLength)
         ELSE KeptIndexes(Tail(idxArr), planLength)

\* planCues from the parsed answer on: planArr and idxArr are [] when the
\* keys hold no array.
planCues(parsed) ==
  LET planArr == IF parsed.planIsArray THEN parsed.plan ELSE <<>>
      idxArr  == IF parsed.indexesIsArray THEN parsed.selected_indexes ELSE <<>>
      plan    == SliceTo(CompletePlanItems(planArr), 6)
      selected_indexes == SliceTo(KeptIndexes(idxArr, Len(plan)), 2)
      finalSel == IF selected_indexes # <<>> THEN selected_indexes
                  ELSE IF plan # <<>> THEN << [int |-> 0, half |-> FALSE] >>
                       ELSE <<>>
  IN  [plan |-> plan, selected_indexes |-> finalSel]

PlanCalls ==
  { [name |-> "planCues", threw |-> t, planIsArray |-> pa, plan |-> p,
     indexesIsArray |-> ia, selected_indexes |-> s] :
      t \in BOOLEAN, pa \in BOOLEAN, ia \in BOOLEAN,
      p \in PlanArrays, s \in IndexArrays(MaxIndexes) }

PlanCallsTried ==
  { c \in PlanCalls :
      /\ c.threw => (~c.planIsArray /\ ~c.indexesIsArray)
      /\ ~c.planIsArray => c.plan = <<>>
      /\ ~c.indexesIsArray => c.selected_indexes = <<>> }

\* const parsed = await llmJson(prompt); ... return { plan, selected_indexes }
PlanCuesReturn ==
  /\ call.name = "planCues" /\ callPc = "called"
  /\ callResult' =
       IF call.threw
       THEN [kind |-> "threw", plan |-> <<>>, selected_indexes |-> <<>>]
       ELSE [kind |-> "returned", plan |-> planCues(call).plan,
             selected_indexes |-> planCues(call).selected_indexes]
  /\ callPc' = "done"
  /\ UNCHANGED << call, callLocals, callLog, pc, err, modelCalls, loopVars,
                  handlerVars, instrVars >>

InitPlan ==
  /\ IdleProgram
  /\ call \in PlanCallsTried
  /\ callPc = "called"
  /\ callLocals = NoLocals
  /\ callLog = <<>>
  /\ callResult = NoResult

NextPlan == PlanCuesReturn

SpecPlan == InitPlan /\ [][NextPlan]_vars

PlanReturned ==
  call.name = "planCues" /\ callPc = "done" /\ callResult.kind = "returned"

\* n is the position of an item of the plan.
ValidPlanIndex(n, plan) == ~n.half /\ n.int >= 0 /\ n.int < Len(plan)

\* C29: the plan planCues returns has at most 6 items; selected_indexes has
\* at most 2 entries and each is the position of an item of the returned
\* plan; when the model selected no such position and the plan is not empty
\* the selection is [0]; when the plan is empty the selection is empty.
C29_PlanAtMostSixSelectionValidOrFirst ==
  PlanReturned =>
    LET plan == callResult.plan
        sel  == callResult.selected_indexes
        given == IF call.indexesIsArray THEN call.selected_indexes ELSE <<>>
    IN  /\ Len(plan) <= 6
        /\ Len(sel) <= 2
        /\ \A i \in 1..Len(sel) : ValidPlanIndex(sel[i], plan)
        /\ ( /\ plan # <<>>
             /\ \A i \in 1..Len(given) :
                  ~(ToNumber(given[i]).finite /\
                    ValidPlanIndex(ToNumber(given[i]), plan)) )
             => sel = << [int |-> 0, half |-> FALSE] >>
        /\ plan = <<>> => sel = <<>>

\* --------------------------------------------------- getCaseText on its own
\* Values a field of a record may hold: null (or no such field), a string,
\* or another JSON value, given by its JSON.stringify text.
NullValue == [kind |-> "null", text |-> <<>>]
FieldValues ==
  { NullValue, [kind |-> "string", text |-> <<>>],
    [kind |-> "string", text |-> <<" ">>], [kind |-> "string", text |-> <<"4">>],
    [kind |-> "json", text |-> <<"0">>] }

\* A record: one field of CASE_FIELDS and one extra column.
CaseRecords == [Age : FieldValues, Other : FieldValues]

\* Most records a table holds.
MaxRecords == 2

RECURSIVE RecordLists(_)
RecordLists(n) ==
  IF n = 0 THEN { <<>> }
  ELSE RecordLists(n - 1)
         \cup { Append(l, r) : l \in { m \in RecordLists(n - 1) : Len(m) = n - 1 },
                               r \in CaseRecords }

\* Array.prototype.join
RECURSIVE Join(_, _)
Join(parts, sep) ==
  IF parts = <<>> THEN <<>>
  ELSE IF Len(parts) = 1 THEN parts[1]
       ELSE parts[1] \o sep \o Join(Tail(parts), sep)

\* if (v == null || v === "") continue;
\* parts.push(`${k}: ${normalizeFieldValue(v)}`);
FieldPart(k, v) ==
  IF v.kind = "null" \/ (v.kind = "string" /\ v.text = <<>>) THEN <<>>
  ELSE << k \o <<":"," ">> \o v.text >>

\* buildRecordText: the CASE_FIELDS in their order, then the extra columns,
\* joined by a line break.
buildRecordText(fields) ==
  Join(FieldPart(<<"A","g","e">>, fields.Age) \o FieldPart(<<"O","t","h","e","r">>, fields.Other),
       <<"\n">>)

\* records.map(r => buildRecordText(r.fields)).filter(Boolean)
RECURSIVE RecordTexts(_)
RecordTexts(records) ==
  IF records = <<>> THEN <<>>
  ELSE IF buildRecordText(Head(records)) = <<>>
       THEN RecordTexts(Tail(records))
       ELSE << buildRecordText(Head(records)) >> \o RecordTexts(Tail(records))

UpstreamStatus_StatusOnly(e) == e.status

\* err?.statusCode || err?.status   (0 stands for a missing or zero field)
UpstreamStatus(e) == IF e.statusCode # 0 THEN e.statusCode ELSE e.status

\* getCaseText: the combined text of the first page, "" for a table without
\* records; what the fetch throws becomes AIRTABLE_READ_FAILED with
\* e.status = err?.statusCode || err?.status || 500.
getCaseText(fetch) ==
  IF fetch.threw
  THEN [threw |-> TRUE, error |-> ReadError(UpstreamStatus(fetch.error)),
        caseText |-> <<>>]
  ELSE [threw |-> FALSE, error |-> NoErr,
        caseText |-> IF fetch.records = <<>> THEN <<>>
                     ELSE Join(RecordTexts(fetch.records),
                               <<"\n", "\n", "-", "-", "-", "\n", "\n">>)]

UpstreamErrors == [statusCode : {0, 404}, status : {0, 429}]

ReadCalls ==
  { [name |-> "getCaseText", threw |-> FALSE, records |-> l,
     error |-> [statusCode |-> 0, status |-> 0]] : l \in RecordLists(MaxRecords) }
  \cup
  { [name |-> "getCaseText", threw |-> TRUE, records |-> <<>>, error |-> e] :
      e \in UpstreamErrors }

\* const { tableName, caseText } = await getCaseText(caseId);
GetCaseText ==
  /\ call.name = "getCaseText" /\ callPc = "called"
  /\ LET r == getCaseText(call) IN
       callResult' = [kind |-> IF r.threw THEN "threw" ELSE "returned",
                      error |-> r.error, caseText |-> r.caseText]
  /\ callPc' = "read"
  /\ UNCHANGED << call, callLocals, callLog, pc, err, modelCalls, loopVars,
                  handlerVars, instrVars >>

\* The batch driver on what getCaseText gave:
\*   if (!caseText.trim()) { processed.push({ caseId, status: "no-text" }); continue; }
\*   catch (e) { processed.push({ caseId, status: "error", error: extractErr(e) }); }
\* extractErr: status: e?.status || e?.statusCode || 500.
DriverRecords ==
  /\ call.name = "getCaseText" /\ callPc = "read"
  /\ callLog' =
       IF callResult.kind = "threw"
       THEN << [status |-> "error",
                errorStatus |-> IF callResult.error.status # 0
                                THEN callResult.error.status ELSE 500] >>
       ELSE IF IsBlank(callResult.caseText)
            THEN << [status |-> "no-text", errorStatus |-> 0] >>
            ELSE <<>>
  /\ callPc' = "done"
  /\ UNCHANGED << call, callLocals, callResult, pc, err, modelCalls, loopVars,
                  handlerVars, instrVars >>

InitRead ==
  /\ IdleProgram
  /\ call \in ReadCalls
  /\ callPc = "called"
  /\ callLocals = NoLocals
  /\ callLog = <<>>
  /\ callResult = NoResult

NextRead == GetCaseText \/ DriverRecords

SpecRead == InitRead /\ [][NextRead]_vars

\* The field is null or the empty string.
EmptyField(v) == v.kind = "null" \/ (v.kind = "string" /\ v.text = <<>>)

\* The table has no record, or no record has a field that holds anything.
NothingRecorded ==
  \A i \in 1..Len(call.records) :
    EmptyField(call.records[i].Age) /\ EmptyField(call.records[i].Other)

\* The status of the upstream error, 500 when it has none.
CarriedStatus ==
  IF call.error.statusCode # 0 THEN call.error.statusCode
  ELSE IF call.error.status # 0 THEN call.error.status ELSE 500

\* C30: for a case without records, or whose records hold only null or empty
\* fields, getCaseText returns the empty text and the batch driver records
\* the case as no-text; when the fetch fails getCaseText throws a read error
\* with the upstream status code (500 when there is none) and the driver
\* records the case as an error with that status.
C30_EmptyCaseIsNoTextFetchFailureIsReadError ==
  (call.name = "getCaseText" /\ callPc # "called") =>
    /\ (~call.threw /\ NothingRecorded) =>
         /\ callResult.kind = "returned"
         /\ callResult.caseText = <<>>
         /\ callPc = "done" =>
              callLog = << [status |-> "no-text", errorStatus |-> 0] >>
    /\ call.threw =>
         /\ callResult.kind = "threw"
         /\ callResult.error.message = "AIRTABLE_READ_FAILED"
         /\ callResult.error.status = CarriedStatus
         /\ callPc = "done" =>
              callLog = << [status |-> "error", errorStatus |-> CarriedStatus] >>

\* Two records without any content gave no-text.
C30_Witness ==
  /\ call.name = "getCaseText" /\ callPc = "done"
  /\ ~call.threw /\ Len(call.records) = 2 /\ NothingRecorded
  /\ call.records[1].Age # call.records[2].Age
  /\ callLog = << [status |-> "no-text", errorStatus |-> 0] >>

\* ----------------------------------------------- repeated values of a case
\* Positions of text s where p starts.
OccurrencesOf(s, p) ==
  { i \in 1..(Len(s) - Len(p) + 1) : SubSeq(s, i, i + Len(p) - 1) = p }

\* The lines the records of the call contribute, in record order.
RECURSIVE ContributedLines(_)
ContributedLines(records) ==
  IF records = <<>> THEN <<>>
  ELSE FieldPart(<<"A","g","e">>, Head(records).Age)
         \o FieldPart(<<"O","t","h","e","r">>, Head(records).Other)
         \o ContributedLines(Tail(records))

\* C31: the text getCaseText returns holds every field value of the case
\* once, at its first occurrence, also when several records hold the value,
\* and the values keep the order of the records.
C31_CaseTextHoldsEachValueOnceInRecordOrder ==
  (call.name = "getCaseText" /\ callPc # "called" /\ ~call.threw) =>
    LET lines == ContributedLines(call.records)
        text  == callResult.caseText
    IN  /\ \A i \in 1..Len(lines) :
             Cardinality(OccurrencesOf(text, lines[i])) = 1
        /\ \A i \in 1..Len(lines), j \in 1..Len(lines) :
             (i < j /\ lines[i] # lines[j]
                /\ ~\E k \in 1..(i - 1) : lines[k] = lines[j]) =>
               \E a \in OccurrencesOf(text, lines[i]),
                  b \in OccurrencesOf(text, lines[j]) : a < b

\* ------------------------------------------------- palette entries by seed
\* C32: for every seed the background the handler assigns is the entry
\* seed mod 4 of BACKGROUNDS and the clothing colour is the entry
\* (seed + 17) mod 14 of CLOTHING_COLORS or the fallback "navy"; white or
\* cream is never combined with the off-white (#fafafa) background, and a
\* selection that does not clash is left as picked.
C32_PaletteMembersNoClashOthersUnchanged ==
  ProfileResolved =>
    LET seed       == call.seed
        background == callResult.profile.background
        clothing   == callResult.profile.clothing_color
        picked     == CLOTHING_COLORS[((seed + 17) % 14) + 1]
        offWhite   == BACKGROUNDS[4]
    IN  /\ background = BACKGROUNDS[(seed % 4) + 1]
        /\ clothing \in {picked, "navy"}
        /\ ~(clothing \in {"white", "cream"} /\ background = offWhite)
        /\ ~(picked \in {"white", "cream"} /\ background = offWhite) =>
             clothing = picked

\* Seed 7 picks cream on the off-white background: navy was assigned.
C32_Witness ==
  /\ ProfileResolved
  /\ call.seed = 7
  /\ callResult.profile.background = BACKGROUNDS[4]
  /\ callResult.profile.clothing_color = "navy"

\* ------------------------------------- failures inside the generation loop
LoopStages ==
  {"GENERATE", "CHECK_COUNT", "CHECK_GENDER", "CHECK_CLOTHING",
   "CHECK_CHILD_ADULT", "DECIDE"}

\* C33: a generation call either yields a payload or throws (API error, or
\* OPENAI_IMAGE_NO_B64_JSON when the answer has no payload), after one call
\* of that attempt; what a generation or verification call throws ends the
\* loop at once: no further attempt, and the catch block that follows records
\* the case with status error, drops the images of the earlier attempts and
\* calls no model; no blob is written for the case, then or later.
C33_LoopFailureEndsCaseWithoutUpload ==
  [][ /\ (pc = "GENERATE" /\ pc' # "thrown") => b64' > 0
      /\ (pc = "GENERATE" /\ pc' = "thrown") =>
           /\ err'.message \in {"API_ERROR", "OPENAI_IMAGE_NO_B64_JSON"}
           /\ genCalls' = genCalls + 1
      /\ (pc \in LoopStages /\ pc' = "thrown" /\ Mode = "batch") =>
           /\ attempt' = attempt
           /\ gen' = NoGen
           /\ \A w \in blobWrites' : w.caseId # caseId
           /\ processed' = processed
      /\ (pc = "thrown" /\ Mode = "batch" /\ attempt > 0) =>
           /\ processed' = Append(processed, Entry(caseId, "error"))
           /\ caseId' = caseId + 1
           /\ pc' = "loop"
           /\ modelCalls' = modelCalls
           /\ blobWrites' = blobWrites
           /\ last' = 0 /\ b64' = 0 /\ gen' = NoGen /\ attempt' = 0
      /\ Mode = "batch" =>
           /\ caseId' >= caseId
           /\ \A w \in blobWrites' \ blobWrites : w.caseId = caseId
    ]_vars

\* The second attempt's answer had no payload: the error is raised while the
\* first attempt's image is still held, and nothing was written.
C33_Witness ==
  /\ Mode = "batch" /\ pc = "thrown"
  /\ err.message = "OPENAI_IMAGE_NO_B64_JSON"
  /\ attempt = 2 /\ genCalls = 2 /\ last = 1
  /\ \A w \in blobWrites : w.caseId # caseId

\* ------------------------------------------------------------------ C34
Min(a, b) == IF a < b THEN a ELSE b

\* The case identifiers of the processed list, in order.
ProcessedIds == [i \in 1..Len(processed) |-> processed[i].caseId]

\* C34: in batch mode without debug the processed list holds the case
\* identifiers startFrom, startFrom + 1, ... with no gap and no repeat, and
\* the list that is answered has min(limit, maxCase - startFrom + 1) entries.
C34_ProcessedIsConsecutiveRunFromStartFrom ==
  (Mode = "batch" /\ ~req.debug) =>
     /\ \A i \in 1..Len(processed) :
          ProcessedIds[i] = req.startFrom + i - 1
     /\ BatchResponded =>
          Len(processed) = Min(req.limit, MaxCase - req.startFrom + 1)

C34_Witness ==
  /\ BatchResponded /\ ~req.debug /\ ~req.dryRun
  /\ req.startFrom = 1 /\ req.limit = 2
  /\ ProcessedIds = << 1, 2 >>
  /\ processed[1].status = "error" /\ processed[2].status = "done"

\* ------------------------------------------------------------------ C35
\* The answer of the debug return.
DebugAnswer == [status |-> 200, ok |-> TRUE, kind |-> "debug"]

\* No image-generation call, no vision call and no blob write so far.
NoImageWork ==
  /\ \A m \in modelCalls : m.kind \notin {"image", "vision"}
  /\ blobWrites = {}

\* C35: in batch mode with debug=1 and dryRun=0 the handler answers 200 with
\* the profile of the first case whose profile extraction and composition
\* decision both succeed; no case after it is read, and no image-generation
\* call, no vision call and no blob write is made at any step. With dryRun=1
\* the loop body leaves at the dry-run exit, so neither the profile
\* extraction nor the debug return is reached.
C35_DebugReturnsAtFirstDecidedCaseWithoutImageWork ==
  [][ /\ (Mode = "batch" /\ req.debug /\ ~req.dryRun) =>
           /\ (pc = "decideComposition" /\ pc' # "thrown") =>
                /\ response' = DebugAnswer
                /\ pc' = "done"
                /\ caseId' = caseId
                /\ profile' # NoProfile
                /\ \A i \in 1..Len(processed) :
                     processed[i].status \in {"no-text", "error"}
           /\ response'.kind = "debug" =>
                \A c \in CaseIds : c > caseId' => texts'[c] = "unread"
           /\ pc' \notin LoopStages \cup {"returned", "uploadJson"}
           /\ NoImageWork'
      /\ (Mode = "batch" /\ req.dryRun) =>
           /\ response'.kind # "debug"
           /\ pc' \notin {"makeProfile", "decideComposition"}
    ]_vars

C35_Witness ==
  /\ Mode = "batch" /\ req.debug /\ ~req.dryRun
  /\ response = DebugAnswer
  /\ caseId = 1 /\ req.startFrom = 1 /\ req.limit = 2
  /\ texts[2] = "unread"
  /\ profile.composition = "pair"

\* ------------------------------------------------------------------ C36
\* How many entries of a list of case identifiers are c.
TimesIn(ids, c) == Cardinality({ i \in 1..Len(ids) : ids[i] = c })

RowIds(rows) == [i \in 1..Len(rows) |-> rows[i].caseId]

\* How many rows of the result lists of the scan belong to case c.
ScanRowsOf(c) ==
  TimesIn(scan.flagged, c) + TimesIn(scan.ukOnly, c)
  + TimesIn(scan.notStated, c) + TimesIn(scan.errors, c)
  + TimesIn(RowIds(scan.pair), c) + TimesIn(RowIds(scan.single), c)

ScanResponded == pc = "done" /\ response.kind = Mode /\ Mode # "batch"

\* C36: in scanOrigin and scanPair mode every case of startFrom..endAt is
\* read whatever limit is, every case the loop has finished has exactly one
\* row in the result lists of its mode (and no other case has any), and no
\* image-generation call, vision call or blob write is made.
C36_ScanAttemptsWholeRangeOneRowPerCase ==
  (Mode # "batch" /\ pc # "start") =>
     /\ \A c \in CaseIds :
          ScanRowsOf(c) =
            IF c >= req.startFrom /\ c < caseId THEN 1 ELSE 0
     /\ Mode = "scanOrigin" => scan.pair = <<>> /\ scan.single = <<>>
     /\ Mode = "scanPair" =>
          scan.flagged = <<>> /\ scan.ukOnly = <<>> /\ scan.notStated = <<>>
     /\ ScanResponded =>
          /\ response.status = 200
          /\ \A c \in CaseIds :
               (c >= req.startFrom /\ c <= req.endAt) =>
                  Attempted(c) /\ ScanRowsOf(c) = 1
     /\ NoImageWork
     /\ processed = <<>>

C36_Witness ==
  /\ ScanResponded /\ Mode = "scanPair"
  /\ req.startFrom = 1 /\ req.endAt = 2 /\ req.limit = 1
  /\ scan.errors = << 1 >>
  /\ RowIds(scan.pair) = << 2 >>

\* ------------------------------------------------------------------ C37
\* buildImagePromptFromProfile: the composition block of the prompt.
\*   const isPair = profile.composition === "pair" && !!profile.companion;
\*   isPair ? "Render EXACTLY TWO people ..." : "Render EXACTLY ONE person ..."
PromptPeople(p) ==
  IF p.composition = "pair" /\ p.companion # NoCompanion THEN 2 ELSE 1

\* C37: while generateVerifiedHeadshot runs, the person count that
\* verifyPersonCount asks for (expectedPeople) is the count the prompt of the
\* case demands, 2 exactly for a pair with a companion and 1 otherwise; the
\* child+adult check is required exactly for a parsed age below 6, and then
\* the expected count is 2.
C37_PromptAndVerifierAgreeOnPersonCount ==
  pc \in LoopStages =>
     /\ expectedPeople = PromptPeople(profile)
     /\ requireChildAdult = IsYoungChild(profile.age)
     /\ requireChildAdult => expectedPeople = 2

C37_Witness ==
  /\ pc = "CHECK_CHILD_ADULT"
  /\ requireChildAdult /\ expectedPeople = 2
  /\ profile.companion = ForcedCompanion
  /\ \E i \in 1..Len(visionLog) : visionLog[i].q = "people" /\ visionLog[i].yes

\* ------------------------------------------------------------------ C38
\* The image and the profile of the current case are in the blob store.
ArtifactsExist ==
  /\ caseId \in 1..MaxCase
  /\ blobs[PngPath(caseId)] = "old"
  /\ blobs[JsonPath(caseId)] = "old"

\* The model calls made for the current case.
CallKindsOfCase == { m.kind : m \in { n \in modelCalls : n.caseId = caseId } }

\* C38: in batch mode with overwrite=0, for a case whose image and profile
\* blobs exist already, the existence is looked at only by the uploads: the
\* profile extraction, the image generation and the verification are run as
\* for any case, then the two uploads write nothing and the case is
\* recorded with status done.
C38_ExistingArtifactsAreRegeneratedButNotRewritten ==
  [][ (Mode = "batch" /\ ~req.overwrite /\ ~req.dryRun /\ ~req.debug
         /\ ArtifactsExist) =>
        /\ (pc = "loop" /\ caseText' # <<>> /\ ~IsBlank(caseText')) =>
              pc' \in {"makeProfile", "thrown"}
        /\ pc = "returned" =>
              /\ {"text", "image", "vision"} \subseteq CallKindsOfCase
              /\ pc' = "uploadJson"
        /\ pc = "uploadJson" =>
              /\ processed' = Append(processed, Entry(caseId, "done"))
              /\ pc' = "loop"
        /\ blobWrites' = blobWrites
        /\ blobs' = blobs
    ]_vars

\* ------------------------------------------------------------------ C39
\* The step about to be taken is a flushBundle() call with a group to flush.
Flushing ==
  /\ \/ pc \in {"flushInTry", "flushInCatch"}
     \/ pc = "loop" /\ ~InstrLoopContinues
  /\ currentBundleStart # 0 /\ currentItems # <<>>

\* The path uploadBundleJson is called with.
FlushedPath ==
  BundlePath(currentBundleStart, currentItems[Len(currentItems)].caseId)

\* C39: instructions handler with overwrite=0 (and dryRun=0): a flush whose
\* bundle path holds a blob already writes nothing, so the items generated
\* by this invocation are not stored, and still appends the bundle to the
\* response with status "uploaded".
C39_ExistingBundleIsKeptAndReportedUploaded ==
  [][ (Flushing /\ ~req.overwrite /\ ~req.dryRun
         /\ blobs[FlushedPath] = "old") =>
        /\ blobs' = blobs
        /\ blobWrites' = blobWrites
        /\ bundles' = Append(bundles,
                        BundleEntry(currentBundleStart, currentItems,
                                    "uploaded"))
    ]_vars

\* ------------------------------------------------------------------ C40
\* Every entry point under the assumption that a remote call that is
\* awaited returns or fails: each step of the model is such a call together
\* with the code up to the next one, so the assumption is weak fairness of
\* the next-state relation. call names the entry point of the run: one of
\* the two handlers, or withRetry called on its own.
HandlerCalls == { [name |-> n] : n \in {"process", "instructions"} }

InitHandlers ==
  /\ call \in HandlerCalls
  /\ callPc = "idle"
  /\ callLocals = NoLocals
  /\ callLog = <<>>
  /\ callResult = NoResult
  /\ req \in (IF call.name = "process" THEN ImageRequests ELSE InstrRequests)
  /\ blobs = UnknownStore
  /\ pc = "start"
  /\ err = NoErr
  /\ modelCalls = {}
  /\ IdleHandler
  /\ IdleInstr
  /\ IdleLoop

InitFair == InitHandlers \/ InitRetry

NextFair ==
  \/ call.name = "process" /\ NextImage
  \/ call.name = "instructions" /\ NextInstr
  \/ NextRetry

SpecFair == InitFair /\ [][NextFair]_vars /\ WF_vars(NextFair)

\* The run is over: the handler has sent its response, withRetry has
\* returned or thrown.
Finished ==
  IF call.name = "withRetry"
  THEN callPc = "done" /\ callResult # NoResult
  ELSE pc = "done" /\ response # NoResponse

\* C40: when every awaited remote call returns or fails, every invocation
\* comes to its end; a handler sends a response exactly once (none before
\* its end, and a response once sent is never replaced); generation attempts
\* and cue cycles never pass 3 and withRetry never makes more than tries
\* calls.
C40_EveryInvocationEndsWithOneResponse ==
  /\ <>[]Finished
  /\ [][response = NoResponse \/ response' = response]_vars
  /\ [](pc = "done" <=> response # NoResponse)
  /\ [](/\ attempt <= MaxAttempts
        /\ cueAttempt <= MaxAttempts
        /\ call.name = "withRetry" => callLocals.i <= call.tries)

C40_Witness ==
  /\ call.name = "process" /\ Finished
  /\ response.kind = "batch" /\ req.limit = 2
  /\ Len(processed) = 2
  /\ processed[1].status = "error" /\ processed[2].status = "done"
  /\ \E m \in modelCalls : m.kind = "vision" /\ m.caseId = 2

====
